---- MODULE Spec2Model ----
(***************************************************************************)
(* Face verification pipeline and the user-service biometric operations    *)
(* of face-recognition-api.                                                *)
(*                                                                         *)
(* Numbers.  Floats are fixed point:                                       *)
(*   - embedding coordinates are in tenths (10 = 1.0), every embedding of  *)
(*     the detector has Euclidean norm exactly 10 (normed_embedding);      *)
(*   - similarity and detection confidence are in thousandths (permille);  *)
(*   - the comparator's confidence is in thousandths of a percent;         *)
(*   - edge density is in thousandths; the other image metrics are the     *)
(*     integer part of the measured value.                                 *)
(***************************************************************************)
EXTENDS Integers, Sequences, FiniteSets, TLC

(***************************************************************************)
(* Bounds of the model.                                                    *)
(***************************************************************************)
MaxUsers == 2
MaxEnrollments == 2

\* longest database handed to batch_compare
MaxBatch == 3

(***************************************************************************)
(* Threshold tables.                                                       *)
(***************************************************************************)
FaceQuality == [EXCELLENT |-> 95, GOOD |-> 80, ACCEPTABLE |-> 65, POOR |-> 50]

QualityTiers == {"EXCELLENT", "GOOD", "ACCEPTABLE", "POOR"}

\* thresholds of HIGH and VERY_HIGH out of order
SecurityLevel_reordered ==
    [VERY_HIGH |-> 25, HIGH |-> 20, MEDIUM |-> 45, LOW |-> 55]

\* thresholds in hundredths
SecurityLevel == [VERY_HIGH |-> 25, HIGH |-> 35, MEDIUM |-> 45, LOW |-> 55]

SecurityLevels == {"VERY_HIGH", "HIGH", "MEDIUM", "LOW"}

use_mediapipe == TRUE

MIN_CONFIDENCE_THRESHOLD == 80

(***************************************************************************)
(* Arithmetic helpers.                                                     *)
(***************************************************************************)
Max(a, b) == IF a >= b THEN a ELSE b

Min(a, b) == IF a <= b THEN a ELSE b

Abs(a) == IF a < 0 THEN 0 - a ELSE a

RECURSIVE Dot(_, _)
Dot(a, b) == IF a = <<>> THEN 0 ELSE Head(a) * Head(b) + Dot(Tail(a), Tail(b))

\* integer square root (floor)
Sqrt(n) == CHOOSE r \in 0..n : r * r <= n /\ (r + 1) * (r + 1) > n

\* Euclidean norm, in the unit of the coordinates
Norm(a) == Sqrt(Dot(a, a))

(***************************************************************************)
(* Embeddings the detector can produce: unit vectors (norm 10).            *)
(*   EA.EB = 0.5   EA.EC = 0.8   EB.EC = 0.7                               *)
(***************************************************************************)
EA == <<10, 0, 0, 0>>

EB == <<5, 5, 5, 5>>

EC == <<8, 6, 0, 0>>

Embeddings == {EA, EB, EC}

(***************************************************************************)
(* Images: what the pipeline measures of a submitted image.                *)
(***************************************************************************)
NoPose == <<>>

GoodFace(e) ==
    [det_score |-> 980, bbox |-> <<50, 50, 250, 250>>, color_variety |-> 40,
     edge_density |-> 120, pose |-> <<5, 0, 0>>, normed_embedding |-> e]

GoodImage(e) ==
    [decodable |-> TRUE, width |-> 640, height |-> 480, mean_brightness |-> 120,
     contrast |-> 50, blur_score |-> 200, faces |-> <<GoodFace(e)>>]

\* a 100x100 image: fails the resolution check
SmallImage(e) == [GoodImage(e) EXCEPT !.width = 100, !.height = 100]

UndecodableImage == [GoodImage(EA) EXCEPT !.decodable = FALSE]

\* too dark and without any face
DarkEmptyImage == [GoodImage(EA) EXCEPT !.mean_brightness = 30, !.faces = <<>>]

NoFaceImage == [GoodImage(EA) EXCEPT !.faces = <<>>]

TwoFacesImage(e) == [GoodImage(e) EXCEPT !.faces = <<GoodFace(e), GoodFace(EB)>>]

\* degenerate bounding box: the crop of the face region is empty
EmptyCropImage(e) ==
    [GoodImage(e) EXCEPT !.faces = <<[GoodFace(e) EXCEPT !.bbox = <<50, 50, 50, 250>>]>>]

\* flat colours: the liveness heuristic says not live (risk medium), score 80
FlatImage(e) ==
    [GoodImage(e) EXCEPT !.faces = <<[GoodFace(e) EXCEPT !.color_variety = 15]>>]

\* not live, weak detection and extreme pose: score 100 - 20 - 10 - 10 = 60
PoorFaceImage(e) ==
    [GoodImage(e) EXCEPT !.faces =
        <<[GoodFace(e) EXCEPT !.color_variety = 10, !.det_score = 850,
                              !.pose = <<0, 45, 0>>]>>]

\* weak detection and no pose estimate: score 95
NoPoseImage(e) ==
    [GoodImage(e) EXCEPT !.faces =
        <<[GoodFace(e) EXCEPT !.det_score = 930, !.pose = NoPose]>>]

Images ==
    {GoodImage(EA), GoodImage(EB), GoodImage(EC), SmallImage(EA), UndecodableImage,
     NoFaceImage, TwoFacesImage(EA), EmptyCropImage(EA), FlatImage(EA),
     PoorFaceImage(EA)}

(***************************************************************************)
(* FaceRecognitionService                                                  *)
(***************************************************************************)
\* _load_image for a base64 string: the decoded picture, or ValueError
load_image(image) ==
    IF image.decodable
    THEN [raised |-> "none", img |-> image]
    ELSE [raised |-> "ValueError:invalid_image", img |-> image]

\* the report with a brightness of exactly 30 or 225 accepted
check_image_quality_inclusive(img) ==
    LET min_resolution == 200
        resolution_ok == img.height >= min_resolution /\ img.width >= min_resolution
        brightness_ok == 30 <= img.mean_brightness /\ img.mean_brightness <= 225
        contrast_ok   == img.contrast > 20
        sharpness_ok  == img.blur_score > 10
    IN  [resolution_ok |-> resolution_ok,
         brightness_ok |-> brightness_ok,
         contrast_ok   |-> contrast_ok,
         sharpness_ok  |-> sharpness_ok,
         overall_ok    |-> resolution_ok /\ brightness_ok /\ contrast_ok /\ sharpness_ok]

check_image_quality(img) ==
    LET min_resolution == 200
        resolution_ok == img.height >= min_resolution /\ img.width >= min_resolution
        brightness_ok == 30 < img.mean_brightness /\ img.mean_brightness < 225
        contrast_ok   == img.contrast > 20
        sharpness_ok  == img.blur_score > 10
    IN  [resolution_ok |-> resolution_ok,
         brightness_ok |-> brightness_ok,
         contrast_ok   |-> contrast_ok,
         sharpness_ok  |-> sharpness_ok,
         overall_ok    |-> resolution_ok /\ brightness_ok /\ contrast_ok /\ sharpness_ok]

\* number of pixels of img[y1:y2, x1:x2] (coordinates are not negative)
CropSize(img, bbox) ==
    LET x1 == bbox[1]
        y1 == bbox[2]
        x2 == bbox[3]
        y2 == bbox[4]
        rows == Max(0, Min(y2, img.height) - Min(y1, img.height))
        cols == Max(0, Min(x2, img.width) - Min(x1, img.width))
    IN  rows * cols

\* The liveness dictionary; has_is_live tells whether the key "is_live" is present.
detect_liveness(img, face) ==
    IF ~use_mediapipe
    THEN [liveness_check |-> FALSE, has_is_live |-> FALSE, is_live |-> FALSE,
          risk_level |-> "unknown"]
    ELSE IF CropSize(img, face.bbox) = 0
    THEN [liveness_check |-> FALSE, has_is_live |-> FALSE, is_live |-> FALSE,
          risk_level |-> "high"]
    ELSE LET is_live == face.color_variety > 15 /\ face.edge_density > 50
         IN  [liveness_check |-> TRUE, has_is_live |-> TRUE, is_live |-> is_live,
              risk_level |-> IF is_live THEN "low" ELSE "medium"]

\* liveness.get("liveness_check") and not liveness.get("is_live", True)
CheckedNotLive(liveness) ==
    liveness.liveness_check /\ ~(IF liveness.has_is_live THEN liveness.is_live ELSE TRUE)

\* the score with the lower confidence band closed at 0.90
calculate_face_quality_score_band_inclusive(face, image_quality, liveness) ==
    LET score ==
            100
            - (IF face.det_score <= 900 THEN 10
               ELSE IF face.det_score < 950 THEN 5 ELSE 0)
            - (IF ~image_quality.resolution_ok THEN 20 ELSE 0)
            - (IF ~image_quality.brightness_ok THEN 15 ELSE 0)
            - (IF ~image_quality.contrast_ok THEN 10 ELSE 0)
            - (IF ~image_quality.sharpness_ok THEN 15 ELSE 0)
            - (IF CheckedNotLive(liveness) THEN 20 ELSE 0)
            - (IF face.pose # NoPose
                  /\ (Abs(face.pose[1]) > 30 \/ Abs(face.pose[2]) > 30
                      \/ Abs(face.pose[3]) > 30)
               THEN 10 ELSE 0)
    IN  Max(0, Min(100, score))

\* the score with the deduction for an extreme pose turned into a bonus
calculate_face_quality_score_pose_bonus(face, image_quality, liveness) ==
    LET score ==
            100
            - (IF face.det_score < 900 THEN 10
               ELSE IF face.det_score < 950 THEN 5 ELSE 0)
            - (IF ~image_quality.resolution_ok THEN 20 ELSE 0)
            - (IF ~image_quality.brightness_ok THEN 15 ELSE 0)
            - (IF ~image_quality.contrast_ok THEN 10 ELSE 0)
            - (IF ~image_quality.sharpness_ok THEN 15 ELSE 0)
            - (IF CheckedNotLive(liveness) THEN 20 ELSE 0)
            + (IF face.pose # NoPose
                  /\ (Abs(face.pose[1]) > 30 \/ Abs(face.pose[2]) > 30
                      \/ Abs(face.pose[3]) > 30)
               THEN 10 ELSE 0)
    IN  Max(0, Min(100, score))

calculate_face_quality_score(face, image_quality, liveness) ==
    LET score ==
            100
            - (IF face.det_score < 900 THEN 10
               ELSE IF face.det_score < 950 THEN 5 ELSE 0)
            - (IF ~image_quality.resolution_ok THEN 20 ELSE 0)
            - (IF ~image_quality.brightness_ok THEN 15 ELSE 0)
            - (IF ~image_quality.contrast_ok THEN 10 ELSE 0)
            - (IF ~image_quality.sharpness_ok THEN 15 ELSE 0)
            - (IF CheckedNotLive(liveness) THEN 20 ELSE 0)
            - (IF face.pose # NoPose
                  /\ (Abs(face.pose[1]) > 30 \/ Abs(face.pose[2]) > 30
                      \/ Abs(face.pose[3]) > 30)
               THEN 10 ELSE 0)
    IN  Max(0, Min(100, score))

NoLiveness ==
    [liveness_check |-> FALSE, has_is_live |-> FALSE, is_live |-> FALSE,
     risk_level |-> "none"]

\* what detect_face hands back when it raises
DetectFailure(kind, stages) ==
    [raised |-> kind, stages |-> stages, quality_score |-> 0, embedding |-> <<>>,
     liveness |-> NoLiveness]

\* the floor of the score refusing a score equal to the tier
assess_face_strict_floor(face, image_quality, liveness, min_quality, check_liveness) ==
    LET afterDetect == IF check_liveness
                       THEN <<"load", "quality", "detect", "liveness">>
                       ELSE <<"load", "quality", "detect">>
        quality_score == calculate_face_quality_score(face, image_quality, liveness)
    IN  IF check_liveness /\ CheckedNotLive(liveness) /\ liveness.risk_level = "high"
        THEN DetectFailure("SpoofingDetectedError", afterDetect)
        ELSE IF quality_score <= FaceQuality[min_quality]
        THEN DetectFailure("LowQualityFaceError", Append(afterDetect, "score"))
        ELSE [raised |-> "none", stages |-> Append(afterDetect, "score"),
              quality_score |-> quality_score,
              embedding |-> face.normed_embedding, liveness |-> liveness]

\* the spoofing check at any risk level
assess_face_any_risk(face, image_quality, liveness, min_quality, check_liveness) ==
    LET afterDetect == IF check_liveness
                       THEN <<"load", "quality", "detect", "liveness">>
                       ELSE <<"load", "quality", "detect">>
        quality_score == calculate_face_quality_score(face, image_quality, liveness)
    IN  IF check_liveness /\ CheckedNotLive(liveness)
        THEN DetectFailure("SpoofingDetectedError", afterDetect)
        ELSE IF quality_score < FaceQuality[min_quality]
        THEN DetectFailure("LowQualityFaceError", Append(afterDetect, "score"))
        ELSE [raised |-> "none", stages |-> Append(afterDetect, "score"),
              quality_score |-> quality_score,
              embedding |-> face.normed_embedding, liveness |-> liveness]

\* detect_face once the single face is picked: the spoofing check, the
\* quality score and its floor, and the result
assess_face(face, image_quality, liveness, min_quality, check_liveness) ==
    LET afterDetect == IF check_liveness
                       THEN <<"load", "quality", "detect", "liveness">>
                       ELSE <<"load", "quality", "detect">>
        quality_score == calculate_face_quality_score(face, image_quality, liveness)
    IN  IF check_liveness /\ CheckedNotLive(liveness) /\ liveness.risk_level = "high"
        THEN DetectFailure("SpoofingDetectedError", afterDetect)
        ELSE IF quality_score < FaceQuality[min_quality]
        THEN DetectFailure("LowQualityFaceError", Append(afterDetect, "score"))
        ELSE [raised |-> "none", stages |-> Append(afterDetect, "score"),
              quality_score |-> quality_score,
              embedding |-> face.normed_embedding, liveness |-> liveness]

\* detect_face without the early exit of the quality gate
detect_face_ungated(image, min_quality, check_liveness, allow_multiple_faces) ==
    LET loaded == load_image(image)
        img == loaded.img
    IN  IF loaded.raised # "none"
        THEN DetectFailure(loaded.raised, <<"load">>)
        ELSE IF Len(img.faces) = 0
        THEN DetectFailure("NoFaceDetectedError", <<"load", "quality", "detect">>)
        ELSE IF Len(img.faces) > 1 /\ ~allow_multiple_faces
        THEN DetectFailure("MultipleFacesError", <<"load", "quality", "detect">>)
        ELSE assess_face(img.faces[1], check_image_quality(img),
                         IF check_liveness THEN detect_liveness(img, img.faces[1])
                         ELSE NoLiveness,
                         min_quality, check_liveness)

\* detect_face running the detector and its no-face check ahead of the gate
detect_face_faces_first(image, min_quality, check_liveness, allow_multiple_faces) ==
    LET loaded == load_image(image)
        img == loaded.img
    IN  IF loaded.raised # "none"
        THEN DetectFailure(loaded.raised, <<"load">>)
        ELSE IF Len(img.faces) = 0
        THEN DetectFailure("NoFaceDetectedError", <<"load", "detect">>)
        ELSE IF ~check_image_quality(img).overall_ok
        THEN DetectFailure("LowQualityFaceError", <<"load", "detect", "quality">>)
        ELSE IF Len(img.faces) > 1 /\ ~allow_multiple_faces
        THEN DetectFailure("MultipleFacesError", <<"load", "quality", "detect">>)
        ELSE assess_face(img.faces[1], check_image_quality(img),
                         IF check_liveness THEN detect_liveness(img, img.faces[1])
                         ELSE NoLiveness,
                         min_quality, check_liveness)

\* detect_face taking the first face however many were detected
detect_face_first_of_many(image, min_quality, check_liveness, allow_multiple_faces) ==
    LET loaded == load_image(image)
        img == loaded.img
    IN  IF loaded.raised # "none"
        THEN DetectFailure(loaded.raised, <<"load">>)
        ELSE IF ~check_image_quality(img).overall_ok
        THEN DetectFailure("LowQualityFaceError", <<"load", "quality">>)
        ELSE IF Len(img.faces) = 0
        THEN DetectFailure("NoFaceDetectedError", <<"load", "quality", "detect">>)
        ELSE assess_face(img.faces[1], check_image_quality(img),
                         IF check_liveness THEN detect_liveness(img, img.faces[1])
                         ELSE NoLiveness,
                         min_quality, check_liveness)

\* detect_face: the stages it ran, and either the error raised or the result
detect_face(image, min_quality, check_liveness, allow_multiple_faces) ==
    LET loaded == load_image(image)
        img == loaded.img
    IN  IF loaded.raised # "none"
        THEN DetectFailure(loaded.raised, <<"load">>)
        ELSE IF ~check_image_quality(img).overall_ok
        THEN DetectFailure("LowQualityFaceError", <<"load", "quality">>)
        ELSE IF Len(img.faces) = 0
        THEN DetectFailure("NoFaceDetectedError", <<"load", "quality", "detect">>)
        ELSE IF Len(img.faces) > 1 /\ ~allow_multiple_faces
        THEN DetectFailure("MultipleFacesError", <<"load", "quality", "detect">>)
        ELSE assess_face(img.faces[1], check_image_quality(img),
                         IF check_liveness THEN detect_liveness(img, img.faces[1])
                         ELSE NoLiveness,
                         min_quality, check_liveness)

\* the cosine distance in place of the similarity
Similarity_distance(embedding1, embedding2) ==
    1000 - (1000 * Dot(embedding1, embedding2))
               \div (Norm(embedding1) * Norm(embedding2))

\* cosine similarity in thousandths: 1 - cosine(embedding1, embedding2)
Similarity(embedding1, embedding2) ==
    1000 - (1000 - (1000 * Dot(embedding1, embedding2))
                       \div (Norm(embedding1) * Norm(embedding2)))

\* the confidence without its lower clamp
Confidence_no_floor(similarity) ==
    Min(100000, ((similarity - 300) * 100000) \div 700)

\* the confidence without the division by 0.7
Confidence_unscaled(similarity) == Min(100000, Max(0, (similarity - 300) * 100))

\* min(100, max(0, (similarity - 0.3) / 0.7 * 100)), in thousandths of a percent
Confidence(similarity) ==
    Min(100000, Max(0, ((similarity - 300) * 100000) \div 700))

RECURSIVE Difference(_, _)
\* embedding1 - embedding2, coordinate by coordinate
Difference(a, b) ==
    IF a = <<>> THEN <<>> ELSE <<Head(a) - Head(b)>> \o Difference(Tail(a), Tail(b))

\* the distance with the sign of the difference kept: negative coordinates dropped
EuclideanDistance_positive(embedding1, embedding2) ==
    LET d == Difference(embedding1, embedding2)
    IN  Norm([i \in DOMAIN d |-> Max(0, d[i])])

\* np.linalg.norm(embedding1 - embedding2), in the unit of the coordinates
EuclideanDistance(embedding1, embedding2) ==
    Norm(Difference(embedding1, embedding2))

CompareFailure(kind) ==
    [raised |-> kind, is_match |-> FALSE, similarity |-> 0, confidence |-> 0,
     euclidean_distance |-> 0, security_level |-> "none"]

\* a comparison of the leading coordinates the two vectors share
compare_faces_truncating(embedding1, embedding2, security_level) ==
    LET n == Min(Len(embedding1), Len(embedding2))
        similarity == Similarity(SubSeq(embedding1, 1, n), SubSeq(embedding2, 1, n))
        threshold == SecurityLevel[security_level]
    IN  [raised |-> "none",
         is_match |-> similarity > 1000 - 10 * threshold,
         similarity |-> similarity,
         confidence |-> Confidence(similarity),
         euclidean_distance |-> EuclideanDistance(SubSeq(embedding1, 1, n),
                                                  SubSeq(embedding2, 1, n)),
         security_level |-> security_level]

compare_faces(embedding1, embedding2, security_level) ==
    IF Len(embedding1) # Len(embedding2)
    THEN CompareFailure("ValueError:size_mismatch")
    ELSE LET similarity == Similarity(embedding1, embedding2)
             threshold == SecurityLevel[security_level]
         IN  [raised |-> "none",
              is_match |-> similarity > 1000 - 10 * threshold,
              similarity |-> similarity,
              confidence |-> Confidence(similarity),
              euclidean_distance |-> EuclideanDistance(embedding1, embedding2),
              security_level |-> security_level]

RECURSIVE InsertBySimilarity(_, _)
\* one step of the stable sort by similarity, largest first: r goes after every
\* entry that is not smaller
InsertBySimilarity(sorted, r) ==
    IF sorted = <<>> THEN <<r>>
    ELSE IF Head(sorted).similarity >= r.similarity
    THEN <<Head(sorted)>> \o InsertBySimilarity(Tail(sorted), r)
    ELSE <<r>> \o sorted

RECURSIVE SortBySimilarity(_)
\* results.sort(key=lambda x: x["similarity"], reverse=True)
SortBySimilarity(results) ==
    IF results = <<>> THEN <<>>
    ELSE InsertBySimilarity(SortBySimilarity(SubSeq(results, 1, Len(results) - 1)),
                            results[Len(results)])

\* batch_compare cutting the results without sorting them
batch_compare_unsorted(query_embedding, embeddings_database, security_level, top_k) ==
    LET results == [i \in DOMAIN embeddings_database |->
                       [id |-> embeddings_database[i][1]]
                       @@ compare_faces(query_embedding, embeddings_database[i][2],
                                        security_level)]
    IN  IF \E i \in DOMAIN results : results[i].raised # "none"
        THEN [raised |-> "ValueError:size_mismatch", results |-> <<>>]
        ELSE [raised |-> "none",
              results |-> SubSeq(results, 1, Min(top_k, Len(results)))]

\* batch_compare: a comparison per stored entry <<id, embedding>>; the first
\* comparison that raises ends the call; top_k is not negative
batch_compare(query_embedding, embeddings_database, security_level, top_k) ==
    LET results == [i \in DOMAIN embeddings_database |->
                       [id |-> embeddings_database[i][1]]
                       @@ compare_faces(query_embedding, embeddings_database[i][2],
                                        security_level)]
    IN  IF \E i \in DOMAIN results : results[i].raised # "none"
        THEN [raised |-> "ValueError:size_mismatch", results |-> <<>>]
        ELSE [raised |-> "none",
              results |-> SubSeq(SortBySimilarity(results), 1,
                                 Min(top_k, Len(results)))]

\* what verify_face hands back when it raises
VerifyFailure(kind, stages) ==
    [raised |-> kind, stages |-> stages, verified |-> FALSE, similarity |-> 0,
     confidence |-> 0, quality_score |-> 0, embedding |-> <<>>]

\* verify_face once detect_face has answered: the comparison and the combined
\* result; embedding is the embedding of the presented image
combine_results(detection, reference_embedding, security_level) ==
    IF detection.raised # "none"
    THEN VerifyFailure(detection.raised, detection.stages)
    ELSE LET comparison == compare_faces(detection.embedding, reference_embedding,
                                         security_level)
         IN  IF comparison.raised # "none"
             THEN VerifyFailure(comparison.raised, Append(detection.stages, "compare"))
             ELSE [raised |-> "none", stages |-> Append(detection.stages, "compare"),
                   verified |-> comparison.is_match,
                   similarity |-> comparison.similarity,
                   confidence |-> comparison.confidence,
                   quality_score |-> detection.quality_score,
                   embedding |-> detection.embedding]

\* FaceRecognitionService.verify_face: detection, then comparison
verify_face(image, reference_embedding, security_level, min_quality, check_liveness) ==
    combine_results(detect_face(image, min_quality, check_liveness, FALSE),
                    reference_embedding, security_level)

(***************************************************************************)
(* EncryptionService.  Text is a sequence of characters.                   *)
(***************************************************************************)
DigitChars == <<"0", "1", "2", "3", "4", "5", "6", "7", "8", "9">>

\* the characters of the JSON text of a list of floats
Alphabet == DigitChars \o <<".", ",", " ", "[", "]", "-">>

\* position of each character in Alphabet
CharCode ==
    [c \in {Alphabet[i] : i \in 1..Len(Alphabet)} |->
        CHOOSE i \in 1..Len(Alphabet) : Alphabet[i] = c]

CharIndex(c) == CharCode[c]

RECURSIVE NatToChars(_)
NatToChars(k) ==
    IF k < 10 THEN <<DigitChars[k + 1]>>
    ELSE NatToChars(k \div 10) \o <<DigitChars[(k % 10) + 1]>>

\* repr of a float with one decimal: 10 is "1.0", -5 is "-0.5"
FloatToChars(n) ==
    IF n < 0
    THEN <<"-">> \o NatToChars((0 - n) \div 10) \o <<".">> \o NatToChars((0 - n) % 10)
    ELSE NatToChars(n \div 10) \o <<".">> \o NatToChars(n % 10)

RECURSIVE JoinFloats(_)
JoinFloats(list) ==
    IF Len(list) = 0 THEN <<>>
    ELSE IF Len(list) = 1 THEN FloatToChars(list[1])
    ELSE FloatToChars(list[1]) \o <<",", " ">> \o JoinFloats(Tail(list))

\* json.dumps of the embedding rounded to whole numbers
json_dumps_rounded(embedding) ==
    <<"[">> \o JoinFloats([i \in DOMAIN embedding |-> (embedding[i] \div 10) * 10])
            \o <<"]">>

\* json.dumps(embedding)
json_dumps(embedding) == <<"[">> \o JoinFloats(embedding) \o <<"]">>

RECURSIVE CharsToNat(_, _)
CharsToNat(chars, acc) ==
    IF chars = <<>> THEN acc
    ELSE CharsToNat(Tail(chars), acc * 10 + (CharIndex(Head(chars)) - 1))

\* position of the first occurrence of c in chars, 0 when there is none
RECURSIVE IndexOf(_, _, _)
IndexOf(chars, c, i) ==
    IF i > Len(chars) THEN 0
    ELSE IF chars[i] = c THEN i ELSE IndexOf(chars, c, i + 1)

\* float(text) for the text of one number
CharsToFloat(chars) ==
    LET neg == chars # <<>> /\ Head(chars) = "-"
        body == IF neg THEN Tail(chars) ELSE chars
        dot == IndexOf(body, ".", 1)
        whole == CharsToNat(SubSeq(body, 1, dot - 1), 0)
        frac == CharsToNat(SubSeq(body, dot + 1, Len(body)), 0)
        value == whole * 10 + frac
    IN  IF neg THEN 0 - value ELSE value

RECURSIVE SplitFloats(_)
SplitFloats(chars) ==
    LET comma == IndexOf(chars, ",", 1)
    IN  IF chars = <<>> THEN <<>>
        ELSE IF comma = 0 THEN <<CharsToFloat(chars)>>
        ELSE <<CharsToFloat(SubSeq(chars, 1, comma - 1))>>
             \o SplitFloats(SubSeq(chars, comma + 2, Len(chars)))

\* json.loads(text) for the text of a list of floats
json_loads(chars) == SplitFloats(SubSeq(chars, 2, Len(chars) - 1))

\* the key of settings.FACE_ENCRYPTION_KEY
FernetKey == 5

\* os.urandom(16) of Fernet.encrypt: a vector that was never drawn before
urandom(drawn) == drawn + 1

Shift(c, k) == Alphabet[((CharIndex(c) - 1 + k) % Len(Alphabet)) + 1]

\* Fernet token: the iv, the ciphertext under (key, iv), and the key's signature
FernetEncrypt(key, iv, plaintext) ==
    <<DigitChars[iv + 1], DigitChars[key + 1]>>
    \o [i \in 1..Len(plaintext) |-> Shift(plaintext[i], key + iv)]

FernetDecrypt(key, token) ==
    LET iv == CharIndex(token[1]) - 1
        ct == SubSeq(token, 3, Len(token))
    IN  IF Len(token) < 2 \/ token[2] # DigitChars[key + 1]
        THEN [raised |-> "InvalidToken", plaintext |-> <<>>]
        ELSE [raised |-> "none",
              plaintext |-> [i \in 1..Len(ct) |->
                                Shift(ct[i], Len(Alphabet) - ((key + iv) % Len(Alphabet)))]]

\* encrypt_embedding: JSON text, Fernet token (base64 text of it)
encrypt_embedding(embedding, iv) == FernetEncrypt(FernetKey, iv, json_dumps(embedding))

\* decrypt_embedding: the embedding, or the error of the cipher
decrypt_embedding(encrypted_embedding) ==
    LET decrypted == FernetDecrypt(FernetKey, encrypted_embedding)
    IN  IF decrypted.raised # "none"
        THEN [raised |-> decrypted.raised, embedding |-> <<>>]
        ELSE [raised |-> "none", embedding |-> json_loads(decrypted.plaintext)]

(***************************************************************************)
(* User records and the database session.                                  *)
(***************************************************************************)
Emails == {"a@x.io", "b@x.io"}

\* NULL of the nullable columns
NoBlob == <<>>

NoEnrollmentId == 0

NoQuality == -1

\* a row as inserted by create: the biometric columns take their defaults
NewUser(email) ==
    [email |-> email,
     face_embedding_encrypted |-> NoBlob,
     face_enrollment_id |-> NoEnrollmentId,
     face_enrolled |-> FALSE,
     face_enrollment_quality |-> NoQuality]

VARIABLES
    users,      \* committed rows of table users: id -> row
    nextId,     \* next value of the primary key sequence
    uuids,      \* number of enrollment identifiers in use so far
    last,       \* the request being answered: what it ran and how it ended
    detected,   \* history: id -> embedding the detector produced in the
                \* user's most recent successful enrollment (<<>> when none)
    requests,   \* the requests served concurrently: slot -> its position in
                \* the handler, its arguments, what it read and its outcome
    default_service,  \* the global _default_service: 0 for None, else the
                      \* number of the FaceRecognitionService instance
    instances   \* history: number of FaceRecognitionService constructed

vars == <<users, nextId, uuids, last, detected, requests, default_service, instances>>

\* get_by_id: the id, or 0 for None
get_by_id(rows, user_id) == IF user_id \in DOMAIN rows THEN user_id ELSE 0

\* get_by_email: the id of the row with this email, or 0 for None
get_by_email(rows, email) ==
    IF \E i \in DOMAIN rows : rows[i].email = email
    THEN CHOOSE i \in DOMAIN rows : rows[i].email = email
    ELSE 0

\* get_db that commits whatever the handler left in the session
get_db_always_commit(rows, raised, session) == session

\* get_db: commit the session when the handler returned, roll back when it raised
get_db(rows, raised, session) == IF raised = "none" THEN session ELSE rows

\* uuid.uuid4(): an identifier that was never drawn before
uuid4(drawn) == drawn + 1

(***************************************************************************)
(* UserService                                                             *)
(***************************************************************************)
\* create: insert a row.  user_data.is_superuser is read: an object without
\* that attribute (has_is_superuser false, as schemas.UserCreate) raises.
\* a create whose INSERT is not checked against the emails in the table
create_allowing_duplicates(rows, id, email, has_is_superuser) ==
    IF ~has_is_superuser
    THEN [raised |-> "AttributeError", session |-> rows, returned |-> 0]
    ELSE [raised |-> "none", session |-> (id :> NewUser(email)) @@ rows,
          returned |-> id]

create(rows, id, email, has_is_superuser) ==
    IF ~has_is_superuser
    THEN [raised |-> "AttributeError", session |-> rows, returned |-> 0]
    ELSE IF get_by_email(rows, email) # 0
    THEN [raised |-> "IntegrityError", session |-> rows, returned |-> 0]
    ELSE [raised |-> "none", session |-> (id :> NewUser(email)) @@ rows,
          returned |-> id]

\* update that also resets the enrolled flag
update_resets_flag(rows, user_id, email) ==
    IF get_by_id(rows, user_id) = 0
    THEN [raised |-> "none", session |-> rows, returned |-> 0]
    ELSE [raised |-> "none",
          session |-> [rows EXCEPT ![user_id].face_enrolled = FALSE],
          returned |-> user_id]

\* update: only the fields of UserUpdate are set; email is the one kept here
update(rows, user_id, email) ==
    IF get_by_id(rows, user_id) = 0
    THEN [raised |-> "none", session |-> rows, returned |-> 0]
    ELSE IF get_by_email(rows, email) \notin {0, user_id}
    THEN [raised |-> "IntegrityError", session |-> rows, returned |-> 0]
    ELSE [raised |-> "none",
          session |-> [rows EXCEPT ![user_id].email = email],
          returned |-> user_id]

\* delete: returned is 1 for True, 0 for False
\* a delete that answers True and leaves the row in the table
delete_keeping_row(rows, user_id) ==
    IF get_by_id(rows, user_id) = 0
    THEN [raised |-> "none", session |-> rows, returned |-> 0]
    ELSE [raised |-> "none", session |-> rows, returned |-> 1]

delete(rows, user_id) ==
    IF get_by_id(rows, user_id) = 0
    THEN [raised |-> "none", session |-> rows, returned |-> 0]
    ELSE [raised |-> "none",
          session |-> [i \in DOMAIN rows \ {user_id} |-> rows[i]],
          returned |-> 1]

EnrollFailure(kind, stages, session) ==
    [raised |-> kind, stages |-> stages, session |-> session, quality_score |-> 0,
     enrollment_id |-> NoEnrollmentId, embedding |-> <<>>]

\* enroll_face once detect_face has answered: encrypt, draw the identifier,
\* set the four fields, flush
update_user_record(rows, user_id, detection_result, iv, drawn, flush_ok) ==
    LET session ==
            [rows EXCEPT ![user_id] =
                [rows[user_id] EXCEPT
                    !.face_embedding_encrypted =
                        encrypt_embedding(detection_result.embedding, iv),
                    !.face_enrollment_id = uuid4(drawn),
                    !.face_enrolled = TRUE,
                    !.face_enrollment_quality = detection_result.quality_score]]
    IN  IF detection_result.raised # "none"
        THEN EnrollFailure(detection_result.raised, detection_result.stages, rows)
        ELSE IF ~flush_ok
        THEN EnrollFailure("DBAPIError", Append(detection_result.stages, "store"),
                           session)
        ELSE [raised |-> "none", stages |-> Append(detection_result.stages, "store"),
              session |-> session,
              quality_score |-> detection_result.quality_score,
              enrollment_id |-> uuid4(drawn),
              embedding |-> detection_result.embedding]

\* enroll_face: iv is the cipher's random vector, flush_ok whether the
\* database accepts the flush
enroll_face(rows, user_id, image, min_quality, configured, iv, drawn, flush_ok) ==
    IF ~configured
    THEN EnrollFailure("ValueError:not_configured", <<>>, rows)
    ELSE IF get_by_id(rows, user_id) = 0
    THEN EnrollFailure("ValueError:not_found", <<>>, rows)
    ELSE update_user_record(rows, user_id, detect_face(image, min_quality, TRUE, FALSE),
                            iv, drawn, flush_ok)

\* no check of the enrollment before the template is used
TemplateUsable_unchecked(user) == TRUE

\* not (not user.face_enrolled or not user.face_embedding_encrypted)
TemplateUsable(user) == user.face_enrolled /\ user.face_embedding_encrypted # NoBlob

UserVerifyFailure(kind, stages, decrypts) ==
    [raised |-> kind, stages |-> stages, decrypts |-> decrypts, verified |-> FALSE,
     similarity |-> 0, confidence |-> 0, quality_score |-> 0, embedding |-> <<>>]

\* UserService.verify_face once the template is decrypted: the result of the
\* face service, or what it raised, handed on as it is
verify_stored(stored, image, security_level, min_quality) ==
    IF stored.raised # "none"
    THEN UserVerifyFailure(stored.raised, <<>>, 1)
    ELSE [decrypts |-> 1]
         @@ verify_face(image, stored.embedding, security_level, min_quality, TRUE)

\* UserService.verify_face
user_verify_face(rows, user_id, image, security_level, min_quality, configured) ==
    IF ~configured
    THEN UserVerifyFailure("ValueError:not_configured", <<>>, 0)
    ELSE IF get_by_id(rows, user_id) = 0
    THEN UserVerifyFailure("ValueError:not_found", <<>>, 0)
    ELSE IF ~TemplateUsable(rows[user_id])
    THEN UserVerifyFailure("ValueError:not_enrolled", <<>>, 0)
    ELSE verify_stored(decrypt_embedding(rows[user_id].face_embedding_encrypted),
                       image, security_level, min_quality)

\* no verification took place
NoVerification == UserVerifyFailure("none", <<>>, 0)

\* the except clause without LowQualityFaceError
FaceErrors_without_quality ==
    {"NoFaceDetectedError", "MultipleFacesError", "SpoofingDetectedError"}

FaceErrors ==
    {"NoFaceDetectedError", "MultipleFacesError", "LowQualityFaceError",
     "SpoofingDetectedError"}

\* the try block that returns the user whenever verification ran
authenticated_user_unverified(user_id, verification) ==
    IF verification.raised \in FaceErrors
    THEN [raised |-> "none", returned |-> 0, v |-> verification]
    ELSE IF verification.raised # "none"
    THEN [raised |-> verification.raised, returned |-> 0, v |-> verification]
    ELSE [raised |-> "none", returned |-> user_id, v |-> verification]

\* the try block of authenticate_with_face: the user when verified, None when
\* not or when a face error was raised; any other error goes to the caller
authenticated_user(user_id, verification) ==
    IF verification.raised \in FaceErrors
    THEN [raised |-> "none", returned |-> 0, v |-> verification]
    ELSE IF verification.raised # "none"
    THEN [raised |-> verification.raised, returned |-> 0, v |-> verification]
    ELSE IF verification.verified
    THEN [raised |-> "none", returned |-> user_id, v |-> verification]
    ELSE [raised |-> "none", returned |-> 0, v |-> verification]

\* authenticate_with_face: returned is the user's id, or 0 for None
authenticate_with_face(rows, email, image, security_level, configured) ==
    IF ~configured
    THEN [raised |-> "ValueError:not_configured", returned |-> 0,
          v |-> NoVerification]
    ELSE IF get_by_email(rows, email) = 0
    THEN [raised |-> "none", returned |-> 0, v |-> NoVerification]
    ELSE IF ~TemplateUsable(rows[get_by_email(rows, email)])
    THEN [raised |-> "none", returned |-> 0, v |-> NoVerification]
    ELSE authenticated_user(get_by_email(rows, email),
                            user_verify_face(rows, get_by_email(rows, email), image,
                                             security_level, "ACCEPTABLE", configured))

(***************************************************************************)
(* auth router: POST /face/login                                           *)
(***************************************************************************)
LoginResponse(status, detail, token, v) ==
    [status |-> status, detail |-> detail, token |-> token, v |-> v]

\* the checks on the verification without the floor on the confidence
login_token_single_gate(verification_result) ==
    IF verification_result.raised \in FaceErrors
    THEN LoginResponse(400, verification_result.raised, FALSE, verification_result)
    ELSE IF verification_result.raised # "none"
    THEN LoginResponse(500, "Face login failed", FALSE, verification_result)
    ELSE IF ~verification_result.verified
    THEN LoginResponse(401, "Face authentication failed", FALSE, verification_result)
    ELSE LoginResponse(200, "ok", TRUE, verification_result)

\* face_login once verify_face has answered: the two checks, the token, and
\* the except clauses
login_token(verification_result) ==
    IF verification_result.raised \in FaceErrors
    THEN LoginResponse(400, verification_result.raised, FALSE, verification_result)
    ELSE IF verification_result.raised # "none"
    THEN LoginResponse(500, "Face login failed", FALSE, verification_result)
    ELSE IF ~verification_result.verified
    THEN LoginResponse(401, "Face authentication failed", FALSE, verification_result)
    ELSE IF verification_result.confidence < MIN_CONFIDENCE_THRESHOLD * 1000
    THEN LoginResponse(401, "Confidence too low", FALSE, verification_result)
    ELSE LoginResponse(200, "ok", TRUE, verification_result)

\* POST /face/login: verify_face is called with its defaults (VERY_HIGH,
\* ACCEPTABLE)
face_login(rows, email, image) ==
    IF get_by_email(rows, email) = 0
    THEN LoginResponse(401, "User not found", FALSE, NoVerification)
    ELSE IF ~rows[get_by_email(rows, email)].face_enrolled
    THEN LoginResponse(401, "Face biometric not enrolled for this user", FALSE,
                       NoVerification)
    ELSE login_token(user_verify_face(rows, get_by_email(rows, email), image,
                                      "VERY_HIGH", "ACCEPTABLE", TRUE))

(***************************************************************************)
(* user router: POST /users/                                               *)
(***************************************************************************)
\* create_user hands a schemas.UserCreate to create
create_user(rows, id, email) ==
    LET created == create(rows, id, email, FALSE)
    IN  IF get_by_email(rows, email) # 0
        THEN [raised |-> "HTTPException", status |-> 400,
              detail |-> "Email already registered", session |-> rows,
              inserted |-> FALSE]
        ELSE IF created.raised # "none"
        THEN [raised |-> created.raised, status |-> 500,
              detail |-> "Internal Server Error", session |-> created.session,
              inserted |-> FALSE]
        ELSE [raised |-> "none", status |-> 201, detail |-> "ok",
              session |-> created.session, inserted |-> TRUE]

(***************************************************************************)
(* The state machine: one request at a time, each with its own session;    *)
(* last holds the outcome of the request until its response is sent.       *)
(***************************************************************************)
\* Inputs of the requests
EnrollTiers == {"ACCEPTABLE", "EXCELLENT"}

\* images presented for enrollment; GoodImage(EC) is presented for
\* verification only
EnrollImages == Images \ {GoodImage(EC)}

\* verification is requested at the default tier
VerifyTiers == {"ACCEPTABLE"}

UserIds == 1..MaxUsers

\* What is recorded of a request.  raised is what the operation raised to its
\* caller, error what the verification or enrollment pipeline raised inside
\* it; gate is the quality gate's verdict on the decoded image ("none" when
\* the image does not decode); embedding is the embedding the detector
\* produced when the pipeline accepted the image.
NoRequest ==
    [op |-> "none", raised |-> "none", error |-> "none", stages |-> <<>>,
     decrypts |-> 0, user_id |-> 0, email |-> "none", level |-> "none",
     gate |-> "none", verified |-> FALSE, similarity |-> 0, confidence |-> 0,
     quality_score |-> 0, embedding |-> <<>>, returned |-> 0, status |-> 0,
     detail |-> "none", token |-> FALSE]

Gate(image) ==
    IF load_image(image).raised # "none" THEN "none"
    ELSE IF check_image_quality(load_image(image).img).overall_ok THEN "pass"
    ELSE "fail"

\* the history follows the committed rows
Track(rows, hist) == [i \in DOMAIN rows |-> IF i \in DOMAIN hist THEN hist[i] ELSE <<>>]

Init ==
    /\ users = <<>>
    /\ nextId = 1
    /\ uuids = 0
    /\ last = NoRequest
    /\ detected = <<>>
    /\ requests = <<>>
    /\ default_service = 0
    /\ instances = 0

\* GET /users/{user_id}: the user, or 404
read_user(rows, user_id) ==
    IF get_by_id(rows, user_id) = 0
    THEN [status |-> 404, detail |-> "User not found", returned |-> 0]
    ELSE [status |-> 200, detail |-> "none", returned |-> user_id]

ReadUser ==
    /\ last = NoRequest
    /\ \E user_id \in UserIds :
            last' = [NoRequest EXCEPT
                        !.op = "read_user", !.user_id = user_id,
                        !.status = read_user(users, user_id).status,
                        !.detail = read_user(users, user_id).detail,
                        !.returned = read_user(users, user_id).returned]
    /\ UNCHANGED <<users, nextId, uuids, detected,
                   requests, default_service, instances>>

\* UserService.create called directly with an object of either shape
Create ==
    \E email \in Emails, has_is_superuser \in BOOLEAN :
        LET r == create(users, nextId, email, has_is_superuser)
        IN  /\ last = NoRequest
            /\ nextId <= MaxUsers
            /\ users' = get_db(users, r.raised, r.session)
            /\ nextId' = IF has_is_superuser THEN nextId + 1 ELSE nextId
            /\ last' = [NoRequest EXCEPT !.op = "create", !.raised = r.raised,
                                         !.error = r.raised, !.email = email,
                                         !.returned = r.returned]
            /\ detected' = Track(users', detected)
            /\ UNCHANGED <<uuids, requests, default_service, instances>>

CreateUser ==
    \E email \in Emails :
        LET r == create_user(users, nextId, email)
        IN  /\ last = NoRequest
            /\ nextId <= MaxUsers
            /\ users' = get_db(users, r.raised, r.session)
            /\ nextId' = IF r.inserted THEN nextId + 1 ELSE nextId
            /\ last' = [NoRequest EXCEPT !.op = "create_user", !.raised = r.raised,
                                         !.error = r.raised, !.email = email,
                                         !.status = r.status, !.detail = r.detail]
            /\ detected' = Track(users', detected)
            /\ UNCHANGED <<uuids, requests, default_service, instances>>

Update ==
    \E user_id \in UserIds, email \in Emails :
        LET r == update(users, user_id, email)
        IN  /\ last = NoRequest
            /\ users' = get_db(users, r.raised, r.session)
            /\ last' = [NoRequest EXCEPT !.op = "update", !.raised = r.raised,
                                         !.error = r.raised, !.user_id = user_id,
                                         !.email = email, !.returned = r.returned]
            /\ UNCHANGED <<nextId, uuids, detected,
                   requests, default_service, instances>>

Delete ==
    \E user_id \in UserIds :
        LET r == delete(users, user_id)
        IN  /\ last = NoRequest
            /\ users' = get_db(users, r.raised, r.session)
            /\ last' = [NoRequest EXCEPT !.op = "delete", !.raised = r.raised,
                                         !.error = r.raised, !.user_id = user_id,
                                         !.returned = r.returned]
            /\ detected' = Track(users', detected)
            /\ UNCHANGED <<nextId, uuids,
                   requests, default_service, instances>>

EnrollFace ==
    \E user_id \in UserIds, image \in EnrollImages, min_quality \in EnrollTiers,
       flush_ok \in BOOLEAN :
        LET r == enroll_face(users, user_id, image, min_quality, TRUE,
                             urandom(uuids), uuids,
                             flush_ok)
        IN  /\ last = NoRequest
            /\ r.raised = "none" => uuids < MaxEnrollments
            /\ users' = get_db(users, r.raised, r.session)
            /\ uuids' = IF r.raised = "none" THEN uuids + 1 ELSE uuids
            /\ last' = [NoRequest EXCEPT !.op = "enroll_face", !.raised = r.raised,
                                         !.error = r.raised, !.stages = r.stages,
                                         !.user_id = user_id, !.gate = Gate(image),
                                         !.quality_score = r.quality_score,
                                         !.embedding = r.embedding,
                                         !.returned = r.enrollment_id]
            /\ detected' = IF r.raised = "none"
                           THEN [detected EXCEPT ![user_id] = r.embedding]
                           ELSE detected
            /\ UNCHANGED <<nextId, requests, default_service, instances>>

RecordVerification(op, v) ==
    [NoRequest EXCEPT !.op = op, !.raised = v.raised, !.error = v.raised,
                      !.stages = v.stages, !.decrypts = v.decrypts,
                      !.verified = v.verified, !.similarity = v.similarity,
                      !.confidence = v.confidence,
                      !.quality_score = v.quality_score,
                      !.embedding = v.embedding]

\* a verify_face that writes the quality of the presented image to the row
VerifyFace_recording ==
    \E user_id \in UserIds, image \in Images, security_level \in SecurityLevels,
       min_quality \in VerifyTiers :
        LET r == user_verify_face(users, user_id, image, security_level,
                                  min_quality, TRUE)
        IN  /\ last = NoRequest
            /\ users' = IF r.raised = "none"
                        THEN [users EXCEPT ![user_id].face_enrollment_quality =
                                                r.quality_score]
                        ELSE users
            /\ last' = [RecordVerification("verify_face", r) EXCEPT
                            !.user_id = user_id, !.gate = Gate(image),
                            !.level = security_level]
            /\ UNCHANGED <<nextId, uuids, detected,
                   requests, default_service, instances>>

VerifyFace ==
    \E user_id \in UserIds, image \in Images, security_level \in SecurityLevels,
       min_quality \in VerifyTiers :
        LET r == user_verify_face(users, user_id, image, security_level,
                                  min_quality, TRUE)
        IN  /\ last = NoRequest
            /\ users' = get_db(users, r.raised, users)
            /\ last' = [RecordVerification("verify_face", r) EXCEPT
                            !.user_id = user_id, !.gate = Gate(image),
                            !.level = security_level]
            /\ UNCHANGED <<nextId, uuids, detected,
                   requests, default_service, instances>>

AuthenticateWithFace ==
    \E email \in Emails, image \in Images, security_level \in SecurityLevels :
        LET r == authenticate_with_face(users, email, image, security_level, TRUE)
        IN  /\ last = NoRequest
            /\ users' = get_db(users, r.raised, users)
            /\ last' = [RecordVerification("authenticate_with_face", r.v) EXCEPT
                            !.raised = r.raised,
                            !.user_id = get_by_email(users, email),
                            !.email = email, !.gate = Gate(image),
                            !.level = security_level, !.returned = r.returned]
            /\ UNCHANGED <<nextId, uuids, detected,
                   requests, default_service, instances>>

FaceLogin ==
    \E email \in Emails, image \in Images :
        LET r == face_login(users, email, image)
            raised == IF r.status = 200 THEN "none" ELSE "HTTPException"
        IN  /\ last = NoRequest
            /\ users' = get_db(users, raised, users)
            /\ last' = [RecordVerification("face_login", r.v) EXCEPT
                            !.raised = raised,
                            !.user_id = get_by_email(users, email),
                            !.email = email, !.gate = Gate(image),
                            !.level = "VERY_HIGH", !.status = r.status,
                            !.detail = r.detail, !.token = r.token]
            /\ UNCHANGED <<nextId, uuids, detected,
                   requests, default_service, instances>>

\* The biometric methods of a UserService built without the face services
Unconfigured ==
    \E op \in {"enroll_face", "verify_face", "authenticate_with_face"},
       user_id \in UserIds :
        LET image == GoodImage(EA)
            raised ==
                IF op = "enroll_face"
                THEN enroll_face(users, user_id, image, "ACCEPTABLE", FALSE, 1,
                                 uuids, TRUE).raised
                ELSE IF op = "verify_face"
                THEN user_verify_face(users, user_id, image, "VERY_HIGH",
                                      "ACCEPTABLE", FALSE).raised
                ELSE authenticate_with_face(users, "a@x.io", image, "VERY_HIGH",
                                            FALSE).raised
        IN  /\ last = NoRequest
            /\ last' = [NoRequest EXCEPT !.op = op, !.raised = raised,
                                         !.error = raised, !.user_id = user_id]
            /\ UNCHANGED <<users, nextId, uuids, detected,
                   requests, default_service, instances>>

\* The response leaves the server and the request's session is closed
Respond ==
    /\ last # NoRequest
    /\ last' = NoRequest
    /\ UNCHANGED <<users, nextId, uuids, detected,
                   requests, default_service, instances>>

Next ==
    \/ ReadUser
    \/ Create
    \/ CreateUser
    \/ Update
    \/ Delete
    \/ EnrollFace
    \/ VerifyFace
    \/ AuthenticateWithFace
    \/ FaceLogin
    \/ Unconfigured
    \/ Respond

Spec == Init /\ [][Next]_vars

TypeOK ==
    /\ DOMAIN users \subseteq UserIds
    /\ DOMAIN detected = DOMAIN users
    /\ nextId \in 1..(MaxUsers + 1)
    /\ uuids \in 0..MaxEnrollments

(***************************************************************************)
(* Properties                                                              *)
(***************************************************************************)
Pipelined == {"enroll_face", "verify_face", "authenticate_with_face", "face_login"}

\* number of calls of the face detector in a request
DetectionCalls(stages) == Cardinality({i \in DOMAIN stages : stages[i] = "detect"})

BiometricFields(u) ==
    <<u.face_embedding_encrypted, u.face_enrollment_id, u.face_enrolled,
      u.face_enrollment_quality>>

\* C1: a request whose decoded image fails the quality gate ends with
\* LowQualityFaceError and never calls the face detector.
C1_GateBeforeDetection ==
    (last.op \in Pipelined /\ last.stages # <<>> /\ last.gate = "fail")
        => /\ last.error = "LowQualityFaceError"
           /\ DetectionCalls(last.stages) = 0

C1_Witness ==
    /\ last.op = "enroll_face"
    /\ last.gate = "fail"
    /\ last.raised = "LowQualityFaceError"
    /\ last.stages = <<"load", "quality">>

\* C2: an enroll_face that fails leaves the biometric fields of every user
\* as they were before the call.
C2_FailedEnrollKeepsRecord ==
    [][(last'.op = "enroll_face" /\ last'.raised # "none")
          => /\ DOMAIN users' = DOMAIN users
             /\ \A i \in DOMAIN users :
                    BiometricFields(users'[i]) = BiometricFields(users[i])]_vars

\* a re-enrollment failed while storing and the earlier template is in place
C2_Witness ==
    /\ last.op = "enroll_face"
    /\ last.raised = "DBAPIError"
    /\ last.user_id \in DOMAIN users
    /\ users[last.user_id].face_enrolled
    /\ decrypt_embedding(users[last.user_id].face_embedding_encrypted).raised = "none"

\* C3: in every user record the enrolled flag, the blob, the enrollment
\* quality and the enrollment id are set together or not at all.
C3_BiometricFieldsTogether ==
    \A i \in DOMAIN users :
        /\ users[i].face_enrolled <=> users[i].face_embedding_encrypted # NoBlob
        /\ users[i].face_enrolled <=> users[i].face_enrollment_quality # NoQuality
        /\ users[i].face_enrolled <=> users[i].face_enrollment_id # NoEnrollmentId

\* an enrolled user has just been updated
C3_Witness ==
    /\ last.op = "update"
    /\ last.returned \in DOMAIN users
    /\ users[last.returned].face_enrolled
    /\ users[last.returned].email = last.email

\* the template stored for user i, as verification reads it
StoredTemplate(i) == decrypt_embedding(users[i].face_embedding_encrypted).embedding

\* C4: authenticate_with_face returns a user only when a user with that email
\* exists, is enrolled (flag and blob) and the submitted image matched that
\* user's own stored template at the requested level; otherwise, when it
\* returns, it returns None.
C4_AuthReturnsOnlyVerifiedUser ==
    (last.op = "authenticate_with_face" /\ last.raised = "none")
        => /\ last.returned # 0 <=>
                \E i \in DOMAIN users :
                    /\ users[i].email = last.email
                    /\ users[i].face_enrolled
                    /\ users[i].face_embedding_encrypted # NoBlob
                    /\ last.error = "none"
                    /\ compare_faces(last.embedding, StoredTemplate(i),
                                     last.level).is_match
           /\ last.returned # 0 =>
                /\ last.returned \in DOMAIN users
                /\ users[last.returned].email = last.email

C4_Witness ==
    /\ last.op = "authenticate_with_face"
    /\ last.returned # 0
    /\ last.verified

\* C5: face login issues a token only when the comparator matched the user's
\* template at VERY_HIGH and the confidence is at least 80 percent.
C5_TokenNeedsMatchAndConfidence ==
    last.op = "face_login"
        => /\ last.token <=> last.status = 200
           /\ last.token =>
                /\ last.error = "none"
                /\ last.verified
                /\ last.confidence >= 80000
                /\ last.user_id \in DOMAIN users
                /\ compare_faces(last.embedding, StoredTemplate(last.user_id),
                                 "VERY_HIGH").is_match

C5_Witness ==
    /\ last.op = "face_login"
    /\ last.token
    /\ last.confidence >= 80000

\* C6: authenticate_with_face never raises one of the four face errors; when
\* verification raised one, the call returns None.
C6_FaceErrorsSwallowed ==
    LET four == {"NoFaceDetectedError", "MultipleFacesError",
                 "LowQualityFaceError", "SpoofingDetectedError"}
    IN  last.op = "authenticate_with_face"
            => /\ last.raised \notin four
               /\ last.error \in four => (last.raised = "none" /\ last.returned = 0)

C6_Witness ==
    /\ last.op = "authenticate_with_face"
    /\ last.error = "LowQualityFaceError"
    /\ last.raised = "none"
    /\ last.returned = 0

\* C7: a face login whose image has similarity 0.5 to the stored template is
\* not matched, gets no token, and its response is the one every other failed
\* login of that user gets (the response does not tell which stage rejected).
C7_LoginFailureIsGeneric ==
    (last.op = "face_login" /\ last.error = "none" /\ last.similarity = 500)
        => /\ ~last.verified
           /\ ~last.token
           /\ \A image \in Images :
                LET other == face_login(users, last.email, image)
                IN  ~other.token
                        => (other.status = last.status /\ other.detail = last.detail)

\* C8: verify_face for a user without the flag or without a blob fails before
\* anything is decrypted and before the detection pipeline runs.
C8_VerifyNeedsFlagAndBlob ==
    (/\ last.op = "verify_face"
     /\ last.user_id \in DOMAIN users
     /\ (~users[last.user_id].face_enrolled
         \/ users[last.user_id].face_embedding_encrypted = NoBlob))
        => /\ last.raised \in {"ValueError:not_enrolled", "ValueError:not_configured"}
           /\ last.decrypts = 0
           /\ last.stages = <<>>

C8_Witness ==
    /\ last.op = "verify_face"
    /\ last.user_id \in DOMAIN users
    /\ ~users[last.user_id].face_enrolled
    /\ last.raised = "ValueError:not_enrolled"
    /\ last.decrypts = 0

\* every stored blob decrypts to the embedding of the latest enrollment
RoundTrip ==
    \A i \in DOMAIN users :
        users[i].face_enrolled
            => decrypt_embedding(users[i].face_embedding_encrypted)
                   = [raised |-> "none", embedding |-> detected[i]]

\* C9: the blob of an enrolled user always decrypts to exactly the embedding
\* the detector produced in the user's latest successful enrollment; a
\* successful (re-)enrollment replaces blob, quality and enrollment id by
\* those of the new enrollment, and the new id differs from every id in use.
C9_TemplateIsLatestEnrollment ==
    /\ []RoundTrip
    /\ [][(last'.op = "enroll_face" /\ last'.raised = "none")
            => LET i == last'.user_id
               IN  /\ detected'[i] = last'.embedding
                   /\ users'[i].face_enrolled
                   /\ users'[i].face_enrollment_quality = last'.quality_score
                   /\ users'[i].face_enrollment_id = last'.returned
                   /\ users'[i].email = users[i].email
                   /\ \A j \in DOMAIN users :
                          users[j].face_enrollment_id # last'.returned]_vars

\* the only user ever created has been enrolled a second time, with another
\* embedding than the first time
C9_Witness ==
    /\ last.op = "enroll_face"
    /\ last.raised = "none"
    /\ nextId = 2
    /\ last.returned = 2
    /\ users[last.user_id].face_enrollment_id = 2
    /\ StoredTemplate(last.user_id) = EB

\* C10: a verify_face whose image passes every stage and yields the embedding
\* of the user's latest enrollment is verified with confidence of 80 or more,
\* at every security level.
C10_SameEmbeddingVerifies ==
    (/\ last.op = "verify_face"
     /\ last.error = "none"
     /\ last.user_id \in DOMAIN users
     /\ last.embedding = detected[last.user_id])
        => /\ last.verified
           /\ last.confidence >= 80000

C10_Witness ==
    /\ last.op = "verify_face"
    /\ last.error = "none"
    /\ last.level = "VERY_HIGH"
    /\ last.user_id \in DOMAIN users
    /\ last.embedding = detected[last.user_id]
    /\ last.verified

(***************************************************************************)
(* FaceRecognitionService and enroll_face called directly, one call at a   *)
(* time, over a wider range of images, vectors and parameters.  last holds *)
(* the call and what it gave back; Respond ends the call.                  *)
(***************************************************************************)
\* The faces the detector can report first: detection confidences on both
\* sides of 0.9 and 0.95; a bounding box inside the image and a degenerate one
\* (empty crop); <<color_variety, edge_density>> live, with flat colours and
\* with too few edges; no pose estimate, a frontal pose, a pitch and a yaw of
\* exactly 30 degrees, a yaw and a roll beyond 30 degrees.
DetectedFaces ==
    {[det_score |-> d, bbox |-> b, color_variety |-> t[1], edge_density |-> t[2],
      pose |-> p, normed_embedding |-> EA] :
        d \in {850, 900, 930, 950, 980},
        b \in {<<50, 50, 250, 250>>, <<50, 50, 50, 250>>},
        t \in {<<40, 120>>, <<15, 120>>, <<40, 50>>},
        p \in {NoPose, <<5, 0, 0>>, <<30, -30, 0>>, <<0, 45, 0>>, <<0, 0, -31>>}}

\* A good picture, a small one, a dark one or bytes that are no picture,
\* showing no face, one face or two faces.
CallImages ==
    {[frame EXCEPT !.faces = faces] :
        frame \in {GoodImage(EA), SmallImage(EA),
                   [GoodImage(EA) EXCEPT !.mean_brightness = 30], UndecodableImage},
        faces \in {<<>>} \cup {<<f>> : f \in DetectedFaces}
                         \cup {<<f, GoodFace(EB)>> : f \in DetectedFaces}}

\* FaceRecognitionService.detect_face
DetectFace ==
    /\ last = NoRequest
    /\ \E image \in CallImages, min_quality \in QualityTiers,
          check_liveness \in BOOLEAN, allow_multiple_faces \in BOOLEAN :
            last' = [op |-> "detect_face", image |-> image,
                     min_quality |-> min_quality,
                     check_liveness |-> check_liveness,
                     allow_multiple_faces |-> allow_multiple_faces,
                     result |-> detect_face(image, min_quality, check_liveness,
                                            allow_multiple_faces)]
    /\ UNCHANGED <<users, nextId, uuids, detected,
                   requests, default_service, instances>>

\* the table once the first user has been created
OneUser == create(<<>>, 1, "a@x.io", TRUE).session

\* the tier a call runs with: the one requested, or the default value of the
\* parameter min_quality when none is given
DefaultMinQuality(requested) ==
    IF requested = "default" THEN "ACCEPTABLE" ELSE requested

\* an enroll_face and the table get_db leaves behind
EnrollCall(rows, image, requested, r) ==
    [op |-> "enroll_face", image |-> image, requested |-> requested,
     min_quality |-> DefaultMinQuality(requested),
     check_liveness |-> TRUE, allow_multiple_faces |-> FALSE,
     rows |-> rows, result |-> r, committed |-> get_db(rows, r.raised, r.session)]

\* UserService.enroll_face of the only user, with any image
EnrollAnyImage ==
    /\ last = NoRequest
    /\ \E image \in CallImages, requested \in EnrollTiers \cup {"default"} :
            last' = EnrollCall(OneUser, image, requested,
                               enroll_face(OneUser, 1, image,
                                           DefaultMinQuality(requested), TRUE,
                                           urandom(0), 0, TRUE))
    /\ UNCHANGED <<users, nextId, uuids, detected,
                   requests, default_service, instances>>

\* the table once that user has enrolled the embedding EA
OneEnrolledUser ==
    enroll_face(OneUser, 1, GoodImage(EA), "ACCEPTABLE", TRUE, urandom(0), 0,
                TRUE).session

\* an authenticate_with_face: the verification it ran and the user it returned
AuthenticateCall(image, r) ==
    [op |-> "authenticate_with_face", image |-> image, requested |-> "default",
     min_quality |-> "ACCEPTABLE", reference_embedding |-> EA,
     check_liveness |-> TRUE, allow_multiple_faces |-> FALSE,
     result |-> r.v, raised |-> r.raised, returned |-> r.returned]

\* UserService.authenticate_with_face of the enrolled user, with any image
AuthenticateAnyImage ==
    /\ last = NoRequest
    /\ \E image \in CallImages :
            last' = AuthenticateCall(image,
                                     authenticate_with_face(OneEnrolledUser, "a@x.io",
                                                            image, "LOW", TRUE))
    /\ UNCHANGED <<users, nextId, uuids, detected,
                   requests, default_service, instances>>

\* FaceRecognitionService.verify_face against a reference of the detector's
\* dimension or of another one
VerifyAnyImage ==
    /\ last = NoRequest
    /\ \E image \in CallImages, reference_embedding \in {EA, EB, <<10, 0>>},
          requested \in EnrollTiers \cup {"default"}, check_liveness \in BOOLEAN :
            last' = [op |-> "face_service.verify_face", image |-> image,
                     reference_embedding |-> reference_embedding,
                     security_level |-> "MEDIUM",
                     requested |-> requested,
                     min_quality |-> DefaultMinQuality(requested),
                     check_liveness |-> check_liveness,
                     allow_multiple_faces |-> FALSE,
                     result |-> verify_face(image, reference_embedding, "MEDIUM",
                                            DefaultMinQuality(requested),
                                            check_liveness)]
    /\ UNCHANGED <<users, nextId, uuids, detected,
                   requests, default_service, instances>>

\* unit vectors of the detector's dimension, with equal, opposite and
\* orthogonal pairs, a vector of norm 0.5, and unit vectors of two and three
\* coordinates
CompareVectors ==
    {EA, EB, EC, <<0, 10, 0, 0>>, <<-10, 0, 0, 0>>, <<6, 8, 0, 0>>, <<1, 1, 7, 7>>,
     <<-5, 5, -5, 5>>, <<3, 9, 3, 1>>, <<4, 8, 4, 2>>, <<3, 4, 0, 0>>, <<10, 0>>,
     <<6, 8>>, <<10, 0, 0>>}

\* FaceRecognitionService.compare_faces
CompareFaces ==
    /\ last = NoRequest
    /\ \E embedding1 \in CompareVectors, embedding2 \in CompareVectors,
          security_level \in SecurityLevels :
            last' = [op |-> "compare_faces", embedding1 |-> embedding1,
                     embedding2 |-> embedding2, security_level |-> security_level,
                     result |-> compare_faces(embedding1, embedding2,
                                              security_level)]
    /\ UNCHANGED <<users, nextId, uuids, detected,
                   requests, default_service, instances>>

\* the databases of at most MaxBatch entries <<id, embedding>>, and one of six
\* entries; the id is the position of the entry
Databases ==
    UNION {{[i \in 1..n |-> <<i, stored[i]>>] :
                stored \in [1..n -> {EA, EB, EC, <<6, 8, 0, 0>>, <<10, 0>>}]} :
           n \in 0..MaxBatch}
    \cup {<<<<1, EB>>, <<2, <<6, 8, 0, 0>>>>, <<3, EA>>, <<4, <<0, 10, 0, 0>>>>,
            <<5, EC>>, <<6, EA>>>>}

\* the value of top_k: the one given, or the default of the parameter
DefaultTopK(given, top_k) == IF given THEN top_k ELSE 5

\* FaceRecognitionService.batch_compare
BatchCompare ==
    /\ last = NoRequest
    /\ \E query_embedding \in {EA, EB, <<6, 8>>}, embeddings_database \in Databases,
          given \in BOOLEAN, top_k \in {0, 1, 2, 5} :
            last' = [op |-> "batch_compare", query_embedding |-> query_embedding,
                     embeddings_database |-> embeddings_database,
                     security_level |-> "MEDIUM", given |-> given,
                     top_k |-> DefaultTopK(given, top_k),
                     result |-> batch_compare(query_embedding, embeddings_database,
                                              "MEDIUM", DefaultTopK(given, top_k))]
    /\ UNCHANGED <<users, nextId, uuids, detected,
                   requests, default_service, instances>>

\* every combination of the four flags of _check_image_quality
ImageQualities ==
    {[resolution_ok |-> r, brightness_ok |-> b, contrast_ok |-> c,
      sharpness_ok |-> k, overall_ok |-> r /\ b /\ c /\ k] :
        r \in BOOLEAN, b \in BOOLEAN, c \in BOOLEAN, k \in BOOLEAN}

\* the liveness dictionaries detect_face can hold: the one of a skipped check
\* and those _detect_liveness returns
LivenessReports ==
    {NoLiveness} \cup {detect_liveness(GoodImage(EA), f) : f \in DetectedFaces}

\* FaceRecognitionService._calculate_face_quality_score
CalculateScore ==
    /\ last = NoRequest
    /\ \E face \in DetectedFaces, image_quality \in ImageQualities,
          liveness \in LivenessReports :
            last' = [op |-> "calculate_face_quality_score", face |-> face,
                     image_quality |-> image_quality, liveness |-> liveness,
                     result |-> calculate_face_quality_score(face, image_quality,
                                                             liveness)]
    /\ UNCHANGED <<users, nextId, uuids, detected,
                   requests, default_service, instances>>

\* FaceRecognitionService._check_image_quality on pictures measured on both
\* sides of each limit
CheckImageQuality ==
    /\ last = NoRequest
    /\ \E width \in {199, 200, 640}, height \in {199, 200, 480},
          mean_brightness \in {30, 31, 120, 224, 225}, contrast \in {20, 21, 50},
          blur_score \in {10, 11, 200} :
            last' = [op |-> "check_image_quality",
                     img |-> [GoodImage(EA) EXCEPT
                                !.width = width, !.height = height,
                                !.mean_brightness = mean_brightness,
                                !.contrast = contrast, !.blur_score = blur_score],
                     result |-> check_image_quality(
                                    [GoodImage(EA) EXCEPT
                                        !.width = width, !.height = height,
                                        !.mean_brightness = mean_brightness,
                                        !.contrast = contrast,
                                        !.blur_score = blur_score])]
    /\ UNCHANGED <<users, nextId, uuids, detected,
                   requests, default_service, instances>>

\* POST /face/login for either email, the enrolled user's and an unknown one
FaceLoginAnyImage ==
    /\ last = NoRequest
    /\ \E email \in Emails, image \in Images :
            last' = [op |-> "face_login", email |-> email, image |-> image,
                     rows |-> OneEnrolledUser,
                     response |-> face_login(OneEnrolledUser, email, image)]
    /\ UNCHANGED <<users, nextId, uuids, detected,
                   requests, default_service, instances>>

NextFaceService ==
    \/ FaceLoginAnyImage
    \/ CheckImageQuality
    \/ DetectFace
    \/ CalculateScore
    \/ EnrollAnyImage
    \/ VerifyAnyImage
    \/ AuthenticateAnyImage
    \/ CompareFaces
    \/ BatchCompare
    \/ Respond

SpecFaceService == Init /\ [][NextFaceService]_vars

\* the call in last ran detect_face up to the choice of the face faces[0]
FacePicked ==
    /\ last.op \in {"detect_face", "enroll_face", "face_service.verify_face",
                  "authenticate_with_face"}
    /\ last.image.decodable
    /\ check_image_quality(last.image).overall_ok
    /\ Len(last.image.faces) >= 1
    /\ Len(last.image.faces) = 1 \/ last.allow_multiple_faces

\* C11: with liveness checking requested and an empty crop of the face region,
\* the liveness report is checked, not live, risk high; detect_face, enroll_face
\* and verify_face raise SpoofingDetectedError; no embedding is returned, stored
\* or compared.
C11_EmptyCropIsSpoofing ==
    (/\ FacePicked
     /\ last.check_liveness
     /\ CropSize(last.image, last.image.faces[1].bbox) = 0)
        => /\ detect_liveness(last.image, last.image.faces[1]).liveness_check
           /\ detect_liveness(last.image, last.image.faces[1]).risk_level = "high"
           /\ last.result.raised = "SpoofingDetectedError"
           /\ last.result.embedding = <<>>
           /\ last.op = "enroll_face" => last.committed = last.rows
           /\ last.op = "face_service.verify_face"
                => \A i \in DOMAIN last.result.stages :
                        last.result.stages[i] # "compare"

\* the image with the texture of its first face replaced by a live one
LiveTwin(image) ==
    [image EXCEPT !.faces[1].color_variety = 40, !.faces[1].edge_density = 120]

\* C12: when the crop is not empty and the heuristic reports not live (risk
\* medium), detect_face never raises SpoofingDetectedError; against the same
\* face with a live texture the only difference is a score 20 points lower, and
\* the call succeeds exactly when that score reaches the requested tier.
C12_NotLiveOnlyCostsPoints ==
    (/\ FacePicked
     /\ last.op = "detect_face"
     /\ last.check_liveness
     /\ CropSize(last.image, last.image.faces[1].bbox) > 0
     /\ ~detect_liveness(last.image, last.image.faces[1]).is_live)
        => /\ detect_liveness(last.image, last.image.faces[1]).risk_level = "medium"
           /\ last.result.raised \in {"none", "LowQualityFaceError"}
           /\ last.result.raised = "none"
                <=> detect_face(LiveTwin(last.image), "POOR", TRUE,
                                last.allow_multiple_faces).quality_score - 20
                        >= FaceQuality[last.min_quality]
           /\ last.result.raised = "none"
                => /\ last.result.quality_score
                        = detect_face(LiveTwin(last.image), "POOR", TRUE,
                                      last.allow_multiple_faces).quality_score - 20
                   /\ last.result.embedding
                        = detect_face(LiveTwin(last.image), "POOR", TRUE,
                                      last.allow_multiple_faces).embedding
                   /\ last.result.stages
                        = detect_face(LiveTwin(last.image), "POOR", TRUE,
                                      last.allow_multiple_faces).stages

\* a face with flat colours accepted at tier GOOD with the score 100 - 20
C12_Witness ==
    /\ FacePicked
    /\ last.op = "detect_face"
    /\ last.check_liveness
    /\ last.min_quality = "GOOD"
    /\ last.image.faces[1].color_variety = 15
    /\ CropSize(last.image, last.image.faces[1].bbox) > 0
    /\ last.result.raised = "none"
    /\ last.result.quality_score = 80

\* C13: compare_faces on vectors of unequal length raises the size-mismatch
\* error and gives no comparison; so does verify_face when the reference has
\* another length than the detected embedding, and batch_compare as a whole
\* when any stored vector has another length than the query.
C13_DimensionMismatchFails ==
    /\ last.op = "compare_faces"
        => IF Len(last.embedding1) # Len(last.embedding2)
           THEN last.result = CompareFailure("ValueError:size_mismatch")
           ELSE last.result.raised = "none"
    /\ (/\ last.op = "face_service.verify_face"
        /\ detect_face(last.image, last.min_quality, last.check_liveness,
                       FALSE).raised = "none"
        /\ Len(last.reference_embedding) # Len(last.image.faces[1].normed_embedding))
        => /\ last.result.raised = "ValueError:size_mismatch"
           /\ ~last.result.verified
           /\ last.result.similarity = 0
    /\ (/\ last.op = "batch_compare"
        /\ \E i \in DOMAIN last.embeddings_database :
                Len(last.embeddings_database[i][2]) # Len(last.query_embedding))
        => /\ last.result.raised = "ValueError:size_mismatch"
           /\ last.result.results = <<>>

\* a batch whose first stored vector has the length of the query and whose
\* second one has not
C13_Witness ==
    /\ last.op = "batch_compare"
    /\ Len(last.embeddings_database) >= 2
    /\ last.top_k = 1
    /\ Len(last.embeddings_database[1][2]) = Len(last.query_embedding)
    /\ Len(last.embeddings_database[2][2]) # Len(last.query_embedding)
    /\ last.result.raised = "ValueError:size_mismatch"

\* C14: for a fixed pair of embeddings, a match at a security level is a match
\* at every looser level, in the order VERY_HIGH, HIGH, MEDIUM, LOW.
C14_MatchMonotoneInLevel ==
    (last.op = "compare_faces" /\ last.result.raised = "none" /\ last.result.is_match)
        => \A looser \in CASE last.security_level = "VERY_HIGH"
                                -> {"HIGH", "MEDIUM", "LOW"}
                           [] last.security_level = "HIGH" -> {"MEDIUM", "LOW"}
                           [] last.security_level = "MEDIUM" -> {"LOW"}
                           [] OTHER -> {} :
                compare_faces(last.embedding1, last.embedding2, looser).is_match

\* similarity 0.6: matched at MEDIUM, which HIGH would refuse
C14_Witness ==
    /\ last.op = "compare_faces"
    /\ last.security_level = "MEDIUM"
    /\ last.result.is_match
    /\ last.result.similarity = 600
    /\ ~compare_faces(last.embedding1, last.embedding2, "HIGH").is_match

\* C15: compare_faces of an embedding with itself has similarity 1.0 and
\* confidence 100, and is a match at each of the four security levels.
C15_ComparatorReflexive ==
    (last.op = "compare_faces" /\ last.embedding1 = last.embedding2)
        => /\ last.result.raised = "none"
           /\ last.result.similarity = 1000
           /\ last.result.confidence = 100000
           /\ last.result.is_match
           /\ \A level \in SecurityLevels :
                compare_faces(last.embedding1, last.embedding1, level).is_match

C15_Witness ==
    /\ last.op = "compare_faces"
    /\ last.embedding1 = EB
    /\ last.embedding2 = EB
    /\ last.security_level = "VERY_HIGH"
    /\ last.result.is_match

\* C16: for embeddings of equal length, compare_faces(a, b) and
\* compare_faces(b, a) give the same similarity, Euclidean distance, confidence
\* and is_match, at every security level.
C16_ComparatorSymmetric ==
    (last.op = "compare_faces" /\ Len(last.embedding1) = Len(last.embedding2))
        => LET swapped == compare_faces(last.embedding2, last.embedding1,
                                        last.security_level)
           IN  /\ swapped.similarity = last.result.similarity
               /\ swapped.euclidean_distance = last.result.euclidean_distance
               /\ swapped.confidence = last.result.confidence
               /\ swapped.is_match = last.result.is_match

\* two different vectors at distance 1.4 (orthogonal unit vectors)
C16_Witness ==
    /\ last.op = "compare_faces"
    /\ last.embedding1 = EA
    /\ last.embedding2 = <<0, 10, 0, 0>>
    /\ last.result.raised = "none"
    /\ last.result.similarity = 0
    /\ last.result.euclidean_distance = 14

\* C17: the quality score lies in 0..100, and from any combination of
\* detection confidence, quality flags, liveness report and pose, turning on one
\* more penalty condition (a lower confidence band, a failing flag, checked
\* and not live, an extreme pose) never gives a higher score.
C17_ScoreBoundedAndMonotone ==
    last.op = "calculate_face_quality_score"
        => /\ last.result \in 0..100
           /\ \A d \in {850, 930} :
                d < last.face.det_score
                    => calculate_face_quality_score([last.face EXCEPT !.det_score = d],
                                                    last.image_quality, last.liveness)
                            <= last.result
           /\ \A flag \in {"resolution_ok", "brightness_ok", "contrast_ok",
                           "sharpness_ok"} :
                last.image_quality[flag]
                    => calculate_face_quality_score(
                           last.face, [last.image_quality EXCEPT ![flag] = FALSE],
                           last.liveness) <= last.result
           /\ ~CheckedNotLive(last.liveness)
                => calculate_face_quality_score(
                       last.face, last.image_quality,
                       [liveness_check |-> TRUE, has_is_live |-> TRUE,
                        is_live |-> FALSE, risk_level |-> "medium"]) <= last.result
           /\ calculate_face_quality_score([last.face EXCEPT !.pose = <<0, 45, 0>>],
                                           last.image_quality, last.liveness)
                    <= last.result

\* every penalty at once: 100 - 10 - 20 - 15 - 10 - 15 - 20 - 10
C17_Witness ==
    /\ last.op = "calculate_face_quality_score"
    /\ last.face.det_score = 850
    /\ ~last.image_quality.resolution_ok
    /\ ~last.image_quality.brightness_ok
    /\ ~last.image_quality.contrast_ok
    /\ ~last.image_quality.sharpness_ok
    /\ CheckedNotLive(last.liveness)
    /\ last.face.pose = <<0, 0, -31>>
    /\ last.result = 0

\* the score _calculate_face_quality_score gives the first face of the image
\* of the call in last
ScoreOfCall ==
    calculate_face_quality_score(
        last.image.faces[1], check_image_quality(last.image),
        IF last.check_liveness
        THEN detect_liveness(last.image, last.image.faces[1])
        ELSE NoLiveness)

\* C18: detect_face returns a result only if the score is at least the value
\* of the requested tier (EXCELLENT 95, GOOD 80, ACCEPTABLE 65, POOR 50); a
\* score below it ends with LowQualityFaceError and a score equal to it passes;
\* enroll_face, verify_face and authenticate_with_face called without a tier
\* require 65.
C18_ScoreFloorPerTier ==
    /\ (last.op = "detect_face" /\ last.result.raised = "none")
        => /\ FacePicked
           /\ last.result.quality_score = ScoreOfCall
           /\ last.result.quality_score
                >= [EXCELLENT |-> 95, GOOD |-> 80, ACCEPTABLE |-> 65,
                    POOR |-> 50][last.min_quality]
    /\ (last.op = "detect_face" /\ FacePicked
        /\ last.result.raised # "SpoofingDetectedError")
        => IF ScoreOfCall < [EXCELLENT |-> 95, GOOD |-> 80, ACCEPTABLE |-> 65,
                             POOR |-> 50][last.min_quality]
           THEN last.result.raised = "LowQualityFaceError"
           ELSE last.result.raised = "none"
    /\ (/\ last.op \in {"enroll_face", "face_service.verify_face",
                        "authenticate_with_face"}
        /\ last.requested = "default"
        /\ FacePicked
        /\ last.result.raised # "SpoofingDetectedError")
        => (last.result.raised = "LowQualityFaceError" <=> ScoreOfCall < 65)

\* a score equal to the value of the requested tier
C18_Witness ==
    /\ last.op = "detect_face"
    /\ last.min_quality = "ACCEPTABLE"
    /\ last.result.raised = "none"
    /\ last.result.quality_score = 65

\* C19: when the detector returns more than one face and allow_multiple_faces
\* is false, detect_face raises MultipleFacesError; enroll_face, verify_face and
\* authenticate_with_face never store or compare an embedding taken from an
\* image with several faces.
C19_MultipleFacesRefused ==
    /\ (/\ last.op \in {"detect_face", "enroll_face", "face_service.verify_face",
                        "authenticate_with_face"}
        /\ last.image.decodable
        /\ check_image_quality(last.image).overall_ok
        /\ Len(last.image.faces) > 1
        /\ ~last.allow_multiple_faces)
        => /\ last.result.raised = "MultipleFacesError"
           /\ last.result.embedding = <<>>
    /\ (/\ last.op \in {"enroll_face", "face_service.verify_face",
                        "authenticate_with_face"}
        /\ Len(last.image.faces) > 1)
        => /\ ~last.allow_multiple_faces
           /\ last.result.raised # "none"
           /\ \A i \in DOMAIN last.result.stages :
                last.result.stages[i] \notin {"store", "compare"}
           /\ last.op = "enroll_face" => last.committed = last.rows
           /\ last.op = "authenticate_with_face" => last.returned = 0

\* an enrollment refused for its two faces, the first of which would pass
C19_Witness ==
    /\ last.op = "enroll_face"
    /\ Len(last.image.faces) = 2
    /\ last.image.faces[1] = GoodFace(EA)
    /\ last.result.raised = "MultipleFacesError"
    /\ last.result.stages = <<"load", "quality", "detect">>

\* the stages of a call that nothing stops, in the order of the code: the
\* liveness check when it is requested, "store" at the end of an enrollment,
\* "compare" at the end of a verification
AllStages ==
    <<"load", "quality", "detect">>
    \o (IF last.check_liveness THEN <<"liveness">> ELSE <<>>)
    \o <<"score">>
    \o (CASE last.op = "enroll_face" -> <<"store">>
          [] last.op \in {"face_service.verify_face", "authenticate_with_face"}
                -> <<"compare">>
          [] OTHER -> <<>>)

\* <<stage, error>> of the first stage of the call in last that fails, read
\* off its inputs; <<"none", "none">> when every stage passes
FirstFailure ==
    IF ~last.image.decodable THEN <<"load", "ValueError:invalid_image">>
    ELSE IF ~check_image_quality(last.image).overall_ok
    THEN <<"quality", "LowQualityFaceError">>
    ELSE IF Len(last.image.faces) = 0 THEN <<"detect", "NoFaceDetectedError">>
    ELSE IF Len(last.image.faces) > 1 /\ ~last.allow_multiple_faces
    THEN <<"detect", "MultipleFacesError">>
    ELSE IF /\ last.check_liveness
            /\ CheckedNotLive(detect_liveness(last.image, last.image.faces[1]))
            /\ detect_liveness(last.image, last.image.faces[1]).risk_level = "high"
    THEN <<"liveness", "SpoofingDetectedError">>
    ELSE IF ScoreOfCall < FaceQuality[last.min_quality]
    THEN <<"score", "LowQualityFaceError">>
    ELSE IF /\ last.op \in {"face_service.verify_face", "authenticate_with_face"}
            /\ Len(last.reference_embedding)
                # Len(last.image.faces[1].normed_embedding)
    THEN <<"compare", "ValueError:size_mismatch">>
    ELSE <<"none", "none">>

\* C20: the stages of a request run in the order load, quality gate, detect,
\* liveness, score, then store or compare, each at most once and none after the
\* first that fails, whose error is the error of the request; an image below
\* the gate and without a face gives LowQualityFaceError, and an image without
\* a face gives NoFaceDetectedError with nothing run after the detector.
C20_StagesInOrderFirstFailureWins ==
    last.op \in {"detect_face", "enroll_face", "face_service.verify_face",
                 "authenticate_with_face"}
        => /\ Len(last.result.stages) <= Len(AllStages)
           /\ last.result.stages = SubSeq(AllStages, 1, Len(last.result.stages))
           /\ last.result.raised = FirstFailure[2]
           /\ IF FirstFailure[1] = "none"
              THEN last.result.stages = AllStages
              ELSE last.result.stages[Len(last.result.stages)] = FirstFailure[1]
           /\ (~check_image_quality(last.image).overall_ok /\ last.image.decodable
               /\ last.image.faces = <<>>)
                => last.result.raised = "LowQualityFaceError"
           /\ (check_image_quality(last.image).overall_ok /\ last.image.decodable
               /\ last.image.faces = <<>>)
                => /\ last.result.raised = "NoFaceDetectedError"
                   /\ last.result.stages = <<"load", "quality", "detect">>

\* a verification of a dark image without a face
C20_Witness ==
    /\ last.op = "face_service.verify_face"
    /\ last.image.decodable
    /\ last.image.mean_brightness = 30
    /\ last.image.faces = <<>>
    /\ last.result.raised = "LowQualityFaceError"
    /\ last.result.stages = <<"load", "quality">>

\* C22: batch_compare of a query against N stored entries returns min(K, N)
\* comparisons of distinct entries, none of them less similar than an entry left
\* out, in the order of decreasing similarity; without top_k, K is 5.
C22_BatchTopK ==
    (last.op = "batch_compare" /\ last.result.raised = "none")
        => /\ Len(last.result.results)
                = Min(IF last.given THEN last.top_k ELSE 5,
                      Len(last.embeddings_database))
           /\ \A i \in DOMAIN last.result.results :
                /\ last.result.results[i].id \in DOMAIN last.embeddings_database
                /\ last.result.results[i].similarity
                    = Similarity(last.query_embedding,
                                 last.embeddings_database[
                                     last.result.results[i].id][2])
                /\ \A j \in DOMAIN last.result.results :
                    /\ i < j => last.result.results[i].similarity
                                    >= last.result.results[j].similarity
                    /\ i # j => last.result.results[i].id # last.result.results[j].id
                /\ \A k \in DOMAIN last.embeddings_database :
                    (\A j \in DOMAIN last.result.results :
                        last.result.results[j].id # k)
                        => last.result.results[i].similarity
                            >= Similarity(last.query_embedding,
                                          last.embeddings_database[k][2])

\* six entries and no top_k: five come back, the most similar first, and the
\* entry left out is the least similar
C22_Witness ==
    /\ last.op = "batch_compare"
    /\ ~last.given
    /\ last.query_embedding = EA
    /\ Len(last.embeddings_database) = 6
    /\ Len(last.result.results) = 5
    /\ last.result.results[1].id = 3
    /\ last.result.results[2].id = 6
    /\ \A i \in 1..5 : last.result.results[i].id # 4

\* C25: the score is 100 minus the sum of the deductions, kept within 0..100:
\* 10 for a confidence below 0.90, else 5 below 0.95; 20, 15, 10 and 15 for a
\* failing resolution, brightness, contrast and sharpness; 20 when liveness was
\* checked and the face is not live; 10 when a pose is given and one of its
\* angles exceeds 30 in absolute value.  A report that was not checked and a
\* missing pose cost nothing.
C25_ScoreFormula ==
    last.op = "calculate_face_quality_score"
        => LET P == (IF last.face.det_score < 900 THEN 10
                     ELSE IF last.face.det_score < 950 THEN 5 ELSE 0)
                    + (IF last.image_quality.resolution_ok THEN 0 ELSE 20)
                    + (IF last.image_quality.brightness_ok THEN 0 ELSE 15)
                    + (IF last.image_quality.contrast_ok THEN 0 ELSE 10)
                    + (IF last.image_quality.sharpness_ok THEN 0 ELSE 15)
                    + (IF /\ last.liveness.liveness_check
                          /\ last.liveness.has_is_live
                          /\ ~last.liveness.is_live
                       THEN 20 ELSE 0)
                    + (IF /\ last.face.pose # <<>>
                          /\ \E i \in 1..3 : last.face.pose[i] > 30
                                                \/ last.face.pose[i] < -30
                       THEN 10 ELSE 0)
           IN  last.result = (IF 100 - P < 0 THEN 0
                              ELSE IF 100 - P > 100 THEN 100 ELSE 100 - P)

\* a confidence of exactly 0.90 and angles of exactly 30 degrees cost 5
C25_Witness ==
    /\ last.op = "calculate_face_quality_score"
    /\ last.face.det_score = 900
    /\ last.face.pose = <<30, -30, 0>>
    /\ last.image_quality.overall_ok
    /\ ~last.liveness.liveness_check
    /\ last.liveness.risk_level = "high"
    /\ last.result = 95

\* C26: overall_ok is true exactly when width and height are both at least
\* 200, the mean brightness lies strictly between 30 and 225, the contrast is
\* above 20 and the sharpness is above 10; each flag reports its own check.
C26_OverallOkIsConjunction ==
    last.op = "check_image_quality"
        => /\ last.result.resolution_ok
                <=> (last.img.width >= 200 /\ last.img.height >= 200)
           /\ last.result.brightness_ok
                <=> (last.img.mean_brightness > 30 /\ last.img.mean_brightness < 225)
           /\ last.result.contrast_ok <=> last.img.contrast > 20
           /\ last.result.sharpness_ok <=> last.img.blur_score > 10
           /\ last.result.overall_ok
                <=> (/\ last.img.width >= 200
                     /\ last.img.height >= 200
                     /\ last.img.mean_brightness > 30
                     /\ last.img.mean_brightness < 225
                     /\ last.img.contrast > 20
                     /\ last.img.blur_score > 10)

\* a brightness of exactly 225 is the only failing check, and it is enough
C26_Witness ==
    /\ last.op = "check_image_quality"
    /\ last.img.mean_brightness = 225
    /\ last.result.resolution_ok
    /\ last.result.contrast_ok
    /\ last.result.sharpness_ok
    /\ ~last.result.brightness_ok
    /\ ~last.result.overall_ok

\* C27: the confidence of a comparison lies in 0..100 and is
\* (similarity - 0.3) / 0.7 * 100 kept within these limits; no smaller
\* similarity has a larger confidence; it is 0 for every similarity up to 0.3,
\* negative ones included, and 100 at similarity 1.
C27_ConfidenceClamped ==
    (last.op = "compare_faces" /\ last.result.raised = "none")
        => /\ last.result.confidence \in 0..100000
           /\ last.result.confidence
                = (IF last.result.similarity <= 300 THEN 0
                   ELSE IF last.result.similarity >= 1000 THEN 100000
                   ELSE ((last.result.similarity - 300) * 1000) \div 7)
           /\ \A smaller \in -1000..last.result.similarity :
                Confidence(smaller) <= last.result.confidence
           /\ last.result.similarity <= 300 => last.result.confidence = 0
           /\ last.result.similarity = 1000 => last.result.confidence = 100000

\* opposite vectors: similarity -1, confidence 0
C27_Witness ==
    /\ last.op = "compare_faces"
    /\ last.embedding1 = EA
    /\ last.embedding2 = <<-10, 0, 0, 0>>
    /\ last.result.similarity = -1000
    /\ last.result.confidence = 0

\* C28: a verify_face, an authenticate_with_face or a face login, whatever
\* its outcome, leaves every user record as it was: no row is added, removed or
\* changed, and no identifier is drawn.
C28_VerificationWritesNothing ==
    [][last'.op \in {"verify_face", "authenticate_with_face", "face_login"}
        => /\ users' = users
           /\ nextId' = nextId
           /\ uuids' = uuids]_vars

\* a verification that succeeded against a template enrolled with a score of 80
C28_Witness ==
    /\ last.op = "verify_face"
    /\ last.raised = "none"
    /\ last.verified
    /\ last.quality_score = 100
    /\ users[last.user_id].face_enrollment_quality = 80

\* C30: for an enrolled user and any image, the face login endpoint issues a
\* token exactly when authenticate_with_face, at its default security level,
\* returns the user for the same email and image.
C30_LoginPathsAgree ==
    (/\ last.op = "face_login"
     /\ get_by_email(last.rows, last.email) # 0)
        => (last.response.token
                <=> authenticate_with_face(last.rows, last.email, last.image,
                                           "VERY_HIGH", TRUE).returned # 0)

MaxRequests == 2

Slots == 1..MaxRequests

\* a slot no request has been given to
IdleRequest ==
    [op |-> "none", pc |-> "idle", email |-> "none", has_is_superuser |-> FALSE,
     user_id |-> 0, image |-> UndecodableImage, loaded |-> <<>>,
     instance |-> 0, returned |-> 0, raised |-> "none", status |-> 0,
     detail |-> "none", waited |-> FALSE, enrollment |-> <<>>,
     compared |-> <<>>]

\* the process after one user has been created and enrolled, before the
\* face service has been asked for
InitConcurrent ==
    /\ users = OneEnrolledUser
    /\ nextId = 2
    /\ uuids = 1
    /\ last = NoRequest
    /\ detected = <<EA>>
    /\ requests = [s \in Slots |-> IdleRequest]
    /\ default_service = 0
    /\ instances = 0

\* get_face_recognition_service, force_new false: the test of the global
GetServiceCheck(s) ==
    /\ requests[s].pc = "idle"
    /\ requests' = [requests EXCEPT ![s].op = "get_face_service",
                        ![s].pc = IF default_service = 0 THEN "construct"
                                  ELSE "return"]
    /\ UNCHANGED <<users, nextId, uuids, last, detected, default_service, instances>>

\* FaceRecognitionService(...): the models are loaded into a new instance
GetServiceConstruct(s) ==
    /\ requests[s].op = "get_face_service"
    /\ requests[s].pc = "construct"
    /\ instances' = instances + 1
    /\ requests' = [requests EXCEPT ![s].instance = instances + 1,
                                    ![s].pc = "assign"]
    /\ UNCHANGED <<users, nextId, uuids, last, detected, default_service>>

\* _default_service = <the new instance>
GetServiceAssign(s) ==
    /\ requests[s].op = "get_face_service"
    /\ requests[s].pc = "assign"
    /\ default_service' = requests[s].instance
    /\ requests' = [requests EXCEPT ![s].pc = "return"]
    /\ UNCHANGED <<users, nextId, uuids, last, detected, instances>>

\* return _default_service
GetServiceReturn(s) ==
    /\ requests[s].op = "get_face_service"
    /\ requests[s].pc = "return"
    /\ requests' = [requests EXCEPT ![s].returned = default_service,
                                    ![s].pc = "done"]
    /\ UNCHANGED <<users, nextId, uuids, last, detected, default_service, instances>>

\* router create_user up to the test of get_by_email: the email is looked
\* up among the committed rows
CreateUserCheck(s) ==
    \E email \in Emails :
        /\ requests[s].pc = "idle"
        /\ requests' =
              IF get_by_email(users, email) # 0
              THEN [requests EXCEPT ![s].op = "create_user", ![s].email = email,
                        ![s].raised = "HTTPException", ![s].status = 400,
                        ![s].detail = "Email already registered",
                        ![s].pc = "done"]
              ELSE [requests EXCEPT ![s].op = "create_user", ![s].email = email,
                        ![s].has_is_superuser = FALSE, ![s].pc = "create"]
        /\ UNCHANGED <<users, nextId, uuids, last, detected, default_service, instances>>

\* UserService.create called directly with an object of either shape
CreateCall(s) ==
    \E email \in Emails, has_is_superuser \in BOOLEAN :
        /\ requests[s].pc = "idle"
        /\ requests' = [requests EXCEPT ![s].op = "create", ![s].email = email,
                            ![s].has_is_superuser = has_is_superuser,
                            ![s].pc = "create"]
        /\ UNCHANGED <<users, nextId, uuids, last, detected, default_service, instances>>

\* the requests whose INSERT of this email was flushed and is not committed yet
PendingInserts(email) ==
    {t \in Slots : requests[t].pc = "commit" /\ requests[t].email = email
                   /\ requests[t].op \in {"create", "create_user"}}

\* UserService.create: the INSERT at flush.  The unique index on email
\* refuses an email of a committed row and makes the statement wait for
\* another transaction that has inserted the same email and is still open.
CreateFlush(s) ==
    LET r == requests[s]
        created == create(users, IF r.pc = "create" THEN nextId ELSE r.returned,
                          r.email, r.has_is_superuser)
    IN  /\ r.op \in {"create", "create_user"}
        /\ r.pc \in {"create", "waiting"}
        /\ r.pc = "waiting" => PendingInserts(r.email) = {}
        /\ nextId' = IF r.pc = "create" /\ r.has_is_superuser THEN nextId + 1
                     ELSE nextId
        /\ requests' =
              IF created.raised # "none"
              THEN [requests EXCEPT ![s].raised = created.raised,
                        ![s].status = 500, ![s].detail = "Internal Server Error",
                        ![s].pc = "done"]
              ELSE IF PendingInserts(r.email) # {}
              THEN [requests EXCEPT ![s].returned = nextId, ![s].waited = TRUE,
                                    ![s].pc = "waiting"]
              ELSE [requests EXCEPT ![s].returned = created.returned,
                                    ![s].pc = "commit"]
        /\ UNCHANGED <<users, uuids, last, detected, default_service, instances>>

\* get_db after the handler returned: the inserted row is committed
CreateCommit(s) ==
    LET r == requests[s]
    IN  /\ r.op \in {"create", "create_user"}
        /\ r.pc = "commit"
        /\ users' = create(users, r.returned, r.email, r.has_is_superuser).session
        /\ detected' = Track(users', detected)
        /\ requests' = [requests EXCEPT ![s].status = 201, ![s].detail = "ok",
                                        ![s].pc = "done"]
        /\ UNCHANGED <<nextId, uuids, last, default_service, instances>>

\* the images offered to the concurrent enrollments and verifications
ConcurrentEnrollImages == {GoodImage(EB), FlatImage(EA), NoFaceImage}

ConcurrentVerifyImages == {GoodImage(EA), GoodImage(EB)}

\* the result of select(User).where(User.id == user_id) in a new session:
\* the committed row as it is now, kept by the session as the loaded state
select_user(rows, user_id) == [i \in DOMAIN rows \cap {user_id} |-> rows[i]]

\* the UPDATE a flush emits for an object whose attributes were set: a
\* column is written when the value set differs from the value loaded, and
\* the other columns of the row stay as committed
flush_update(committed, loaded, object) ==
    [committed EXCEPT
        !.face_embedding_encrypted =
            IF object.face_embedding_encrypted # loaded.face_embedding_encrypted
            THEN object.face_embedding_encrypted ELSE @,
        !.face_enrollment_id =
            IF object.face_enrollment_id # loaded.face_enrollment_id
            THEN object.face_enrollment_id ELSE @,
        !.face_enrolled =
            IF object.face_enrolled # loaded.face_enrolled
            THEN object.face_enrolled ELSE @,
        !.face_enrollment_quality =
            IF object.face_enrollment_quality # loaded.face_enrollment_quality
            THEN object.face_enrollment_quality ELSE @]

\* the three values one enrollment stores
EnrollmentOf(row) ==
    [blob |-> row.face_embedding_encrypted, id |-> row.face_enrollment_id,
     quality |-> row.face_enrollment_quality]

\* enroll_face up to get_by_id: the user is loaded into the request's session
EnrollLoad(s) ==
    \E image \in ConcurrentEnrollImages :
        /\ requests[s].pc = "idle"
        /\ requests' =
              IF get_by_id(users, 1) = 0
              THEN [requests EXCEPT ![s].op = "enroll_face", ![s].user_id = 1,
                        ![s].image = image, ![s].raised = "ValueError:not_found",
                        ![s].pc = "done"]
              ELSE [requests EXCEPT ![s].op = "enroll_face", ![s].user_id = 1,
                        ![s].image = image, ![s].loaded = select_user(users, 1),
                        ![s].pc = "detect"]
        /\ UNCHANGED <<users, nextId, uuids, last, detected, default_service, instances>>

\* enroll_face from detect_face to the commit of get_db: the four attributes
\* are set on the loaded object, the flush writes the changed columns to the
\* row (after any other transaction writing the row has committed), and the
\* commit publishes them
EnrollWrite(s) ==
    LET r == requests[s]
        e == update_user_record(r.loaded, r.user_id,
                                detect_face(r.image, "ACCEPTABLE", TRUE, FALSE),
                                urandom(uuids), uuids, TRUE)
    IN  /\ r.op = "enroll_face"
        /\ r.pc = "detect"
        /\ users' = IF e.raised # "none" THEN users
                    ELSE [users EXCEPT ![r.user_id] =
                            flush_update(@, r.loaded[r.user_id],
                                         e.session[r.user_id])]
        /\ uuids' = IF e.raised # "none" THEN uuids ELSE uuids + 1
        /\ detected' = IF e.raised # "none" THEN detected
                       ELSE [detected EXCEPT ![r.user_id] = e.embedding]
        /\ requests' =
              [requests EXCEPT ![s].raised = e.raised,
                   ![s].enrollment =
                        IF e.raised # "none" THEN <<>>
                        ELSE <<EnrollmentOf(e.session[r.user_id])>>,
                   ![s].pc = "done"]
        /\ UNCHANGED <<nextId, last, default_service, instances>>

\* verify_face up to get_by_id
VerifyLoad(s) ==
    \E image \in ConcurrentVerifyImages :
        /\ requests[s].pc = "idle"
        /\ requests' = [requests EXCEPT ![s].op = "verify_face", ![s].user_id = 1,
                            ![s].image = image,
                            ![s].loaded = select_user(users, 1),
                            ![s].pc = "compare"]
        /\ UNCHANGED <<users, nextId, uuids, last, detected, default_service, instances>>

\* verify_face from the check of the enrollment on: the template of the
\* loaded user is decrypted and compared
VerifyCompare(s) ==
    LET r == requests[s]
        v == user_verify_face(r.loaded, r.user_id, r.image, "VERY_HIGH",
                              "ACCEPTABLE", TRUE)
    IN  /\ r.op = "verify_face"
        /\ r.pc = "compare"
        /\ requests' = [requests EXCEPT ![s].raised = v.raised,
                                        ![s].compared = <<v>>,
                                        ![s].pc = "done"]
        /\ UNCHANGED <<users, nextId, uuids, last, detected, default_service, instances>>

NextConcurrent ==
    \E s \in Slots :
        \/ GetServiceCheck(s)
        \/ GetServiceConstruct(s)
        \/ GetServiceAssign(s)
        \/ GetServiceReturn(s)
        \/ CreateUserCheck(s)
        \/ CreateCall(s)
        \/ CreateFlush(s)
        \/ CreateCommit(s)
        \/ EnrollLoad(s)
        \/ EnrollWrite(s)
        \/ VerifyLoad(s)
        \/ VerifyCompare(s)

SpecConcurrent == InitConcurrent /\ [][NextConcurrent]_vars

\* the enrollments completed so far: the one in the table at the start and
\* those of the requests
Enrollments ==
    {EnrollmentOf(OneEnrolledUser[1])}
    \cup {requests[s].enrollment[1] : s \in {t \in Slots : requests[t].enrollment # <<>>}}

\* C21: whatever the interleaving of the requests, first requests arriving
\* together included, get_face_recognition_service constructs the face
\* model at most once and every call returns that one instance.
C21_OneFaceModelPerProcess ==
    /\ instances <= 1
    /\ \A s \in Slots :
            requests[s].op = "get_face_service" /\ requests[s].pc = "done"
                => requests[s].returned = 1

\* C29: after concurrent enrollments of one user, or an enrollment and a
\* verification, the record carries the blob, the enrollment id and the
\* quality of one single enrollment, and a verification compared against the
\* complete template of one enrollment.
C29_RecordOfOneEnrollment ==
    /\ \A i \in DOMAIN users :
            users[i].face_enrolled => EnrollmentOf(users[i]) \in Enrollments
    /\ \A s \in Slots :
            requests[s].op = "verify_face" /\ requests[s].pc \in {"compare", "done"}
                => /\ requests[s].loaded # <<>>
                   /\ \E e \in Enrollments :
                        requests[s].loaded[1].face_embedding_encrypted = e.blob

====
